---- MODULE Spec2Model ----
(***************************************************************************)
(* A model of the spalloc client: ProtocolClient (protocol_client.py) and  *)
(* Job with its background keepalive thread (job.py).                      *)
(*                                                                         *)
(* Two threads use one ProtocolClient: "fg", the caller's thread, and      *)
(* "bg", the Job's keepalive thread.  The server and the network are the   *)
(* environment: lines travel on a per-socket wire in order, with any       *)
(* delay; the server may close a connection or refuse one.                 *)
(*                                                                         *)
(* Python's None is the empty sequence (None) for numbers that may be None *)
(* (timeouts, finish_time) and the string "None" for everything else.      *)
(***************************************************************************)
EXTENDS Integers, Sequences, FiniteSets, TLC

\* ------------------------------------------------------------------ bounds
MaxTime == 2      \* the clock stops here
MaxNotes == 2     \* notifications the server pushes in one behaviour
MaxOps == 3       \* API invocations by one caller in one behaviour
MaxDrops == 1     \* connections the server closes in one behaviour
MaxSocks == 3     \* sockets made in one behaviour of the table of sockets

\* ------------------------------------------------------------ basic values
Threads == {"fg", "bg"}

None == <<>>
Some(x) == <<x>>

\* self._local.sock when the thread's local() has no attribute sock
Unset == 0 - 1

\* A line of JSON sent by the server.  ret: the object has a "return" key;
\* val: its value ("return" for a response, the payload of a notification);
\* n: the serial number of a notification; cur (a history field): the line is
\* the response to the command most recently sent on its socket.
NoLine == [ret |-> FALSE, cmd |-> "None", val |-> "None", reason |-> "None", n |-> 0, cur |-> FALSE]
Response(cmd, val, reason) ==
    [ret |-> TRUE, cmd |-> cmd, val |-> val, reason |-> reason, n |-> 0, cur |-> TRUE]
Notification(k) ==
    [ret |-> FALSE, cmd |-> "jobs_changed", val |-> "job", reason |-> "None", n |-> k, cur |-> FALSE]

JobStates == {"unknown", "queued", "power", "ready", "destroyed"}

VARIABLES
    \* ProtocolClient
    dead,            \* self._dead
    socks,           \* self._socks: per thread "absent", "new" (socket made), "conn"
    localSock,       \* self._local.sock per thread: "unset" (no attribute), "none", "sock"
    buffer,          \* self._local.buffer per thread (complete lines only)
    notifications,   \* self._notifications
    \* the network and the server
    wire,            \* per thread: lines the server sent on its socket, not yet read
    link,            \* per thread: "none", "up", "down" (closed by the server)
    sub,             \* per thread: notify_job was processed on its connection
    jobState,        \* the server's state of the job
    serverVersion,   \* the version the server reports
    serial,          \* notifications pushed so far
    drops,           \* connections the server closed so far
    now,             \* time.time()
    \* the threads
    pc,              \* where each thread is
    st,              \* where it is inside call() / wait_for_notification()
    cf,              \* the frame of that call
    out,             \* what the call returned or raised
    rx,              \* history: the lines _recv_json returned during the call
    \* the caller of the API
    ops,             \* API invocations so far
    res,             \* per thread: the outcome of its last finished operation
    delivered,       \* history: what wait_for_notification took from the queue
    arrived,         \* history: the notifications call() received, in order
    \* Job
    id,              \* self.id
    stopEv,          \* self._stop
    lock,            \* self._client_lock: "free" or the thread holding it
    timeoutCfg,      \* self._timeout
    keepalive,       \* self._keepalive
    wake,            \* per thread: when its sleep or Event.wait(timeout) ends
    top,             \* the method of Job the caller is in
    called,          \* the methods of Job that may be called once and were
    wf,              \* the frame of wait_for_state_change
    wu,              \* the frame of wait_until_ready
    \* ProtocolClient's table of sockets, statement by statement
    table,           \* self._socks: per thread the socket it maps to, 0 for none
    fds,             \* the sockets made so far: who made each, and its state
    tls,             \* self._local.sock per thread
    stack,           \* per thread: the frames of the methods it is in
    raised,          \* per thread: the exception on its way up, or "-"
    \* Terminal
    term,            \* enabled, _location_saved, and the calls of update() so far
    \* the scripts
    sent             \* history: the commands a script has sent, in order

cvars == <<dead, socks, localSock, buffer, wire, link, sub, jobState, serverVersion, serial,
          drops>>
wvars == <<table, fds, tls, stack, raised>>
tvars == <<pc, st, cf, out, rx>>
hvars == <<delivered, arrived>>
avars == <<ops, res>>
jvars == <<id, stopEv, lock, timeoutCfg, keepalive, wvars, term, sent, wake, top, called, wf, wu>>
vars == <<dead, socks, localSock, buffer, notifications, wire, link, sub, jobState,
          serverVersion, serial, drops, now, pc, st, cf, out, rx, ops, res, delivered, arrived,
          id, stopEv, lock, timeoutCfg, keepalive, wvars, term, sent, wake, top, called, wf, wu>>

\* The client, its sockets and the server as one record: the methods of
\* ProtocolClient are functions from such a record to their possible outcomes.
CS == [dead |-> dead, socks |-> socks, localSock |-> localSock, buffer |-> buffer,
       wire |-> wire, link |-> link, sub |-> sub, jobState |-> jobState,
       serverVersion |-> serverVersion, serial |-> serial, drops |-> drops]

SetCS(s) ==
    /\ dead' = s.dead
    /\ socks' = s.socks
    /\ localSock' = s.localSock
    /\ buffer' = s.buffer
    /\ wire' = s.wire
    /\ link' = s.link
    /\ sub' = s.sub
    /\ jobState' = s.jobState
    /\ serverVersion' = s.serverVersion
    /\ serial' = s.serial
    /\ drops' = s.drops

\* ------------------------------------------------------- ProtocolClient
\* _close(key) run by thread cur.
CloseKey(s, key, cur) ==
    IF s.socks[key] = "absent" THEN s
    ELSE [s EXCEPT !.socks[key] = "absent",
                   !.localSock[cur] = IF key = cur THEN "none" ELSE @,
                   !.buffer[cur] = IF key = cur THEN <<>> ELSE @,
                   !.wire[key] = <<>>,
                   !.link[key] = "none",
                   !.sub[key] = FALSE]

\* close() run by thread cur: every tracked socket, then a new local().
CloseOwn(s, cur) == CloseKey(s, cur, cur)
Close(s, cur) ==
    LET s1 == [s EXCEPT !.dead = TRUE]
        s2 == CloseKey(CloseKey(s1, "fg", cur), "bg", cur)
    IN  [s2 EXCEPT !.localSock = [t \in Threads |-> "unset"],
                   !.buffer = [t \in Threads |-> <<>>]]

\* sock.connect((hostname, port)) on the socket of thread t.  A first
\* connect succeeds or fails as the server is reachable or not, and always
\* fails on a socket whose timeout is 0 (EINPROGRESS).  A connect on a socket
\* that is already connected fails with EISCONN on a blocking socket; with a
\* timeout set the platform decides (Linux reports the finished connection).
SockConnect(s, t, timeout) ==
    IF s.socks[t] = "new"
    THEN {[s |-> [s EXCEPT !.socks[t] = "conn", !.link[t] = "up", !.wire[t] = <<>>],
           r |-> "ok"] : x \in IF timeout = Some(0) THEN {} ELSE {1}}
         \cup {[s |-> s, r |-> "OSError"]}
    ELSE {[s |-> s, r |-> "ok"] : x \in IF timeout = None THEN {} ELSE {1}}
         \cup {[s |-> s, r |-> "OSError"]}

\* _connect() on a socket just made by _get_connection: the nested
\* _get_connection finds the socket in the table and returns it.
ConnectNewLeaves(s, t, timeout) == SockConnect(s, t, timeout)
ConnectNew(s, t, timeout) ==
    {IF o.r = "ok" THEN o ELSE [s |-> CloseKey(o.s, t, t), r |-> "OSError"] :
        o \in SockConnect(s, t, timeout)}

\* _get_connection(timeout): r is "sock", "none" (dead: returns None) or
\* "OSError" (the lazy connect failed).
GetConnection(s, t, timeout) ==
    IF s.dead THEN {[s |-> s, r |-> "none"]}
    ELSE IF s.socks[t] # "absent" THEN {[s |-> s, r |-> "sock"]}
    ELSE {IF o.r = "ok" THEN [s |-> o.s, r |-> "sock"] ELSE o :
            o \in ConnectNew([s EXCEPT !.socks[t] = "new",
                                       !.localSock[t] = "sock",
                                       !.buffer[t] = <<>>], t, timeout)}

\* _connect() as connect() calls it.
ConnectOuter(s, t, timeout) ==
    UNION {IF g.r = "OSError" THEN {[s |-> CloseKey(g.s, t, t), r |-> "OSError"]}
           ELSE IF g.r = "none" THEN {[s |-> g.s, r |-> "AttributeError"]}
           ELSE {IF o.r = "ok" THEN o ELSE [s |-> CloseKey(o.s, t, t), r |-> "OSError"] :
                    o \in SockConnect(g.s, t, timeout)} :
           g \in GetConnection(s, t, timeout)}

\* connect(timeout).
Connect(s, t, timeout) ==
    IF s.localSock[t] = "unset" THEN {[s |-> s, r |-> "AttributeError"]}
    ELSE LET s1 == IF s.localSock[t] # "none" THEN CloseKey(s, t, t) ELSE s
         IN  ConnectOuter([s1 EXCEPT !.dead = FALSE], t, timeout)

\* What the server does with a command received on the connection of t.
Stale(lines) == [i \in DOMAIN lines |-> [lines[i] EXCEPT !.cur = FALSE]]

ServerReply(s, cmd) ==
    IF cmd = "get_job_state"
    THEN Response(cmd, s.jobState, IF s.jobState = "destroyed" THEN "reason" ELSE "None")
    ELSE IF cmd = "version" THEN Response(cmd, s.serverVersion, "None")
    ELSE IF cmd = "create_job" THEN Response(cmd, "job", "None")
    ELSE IF cmd = "get_job_machine_info" THEN Response(cmd, "info", "None")
    ELSE Response(cmd, "None", "None")

ServerHandle(s, t, cmd) ==
    [s EXCEPT !.wire[t] = Append(Stale(@), ServerReply(s, cmd)),
              !.buffer[t] = Stale(@),
              !.sub[t] = IF cmd = "notify_job" THEN TRUE ELSE @,
              !.jobState = IF cmd = "create_job" THEN "queued"
                           ELSE IF cmd = "destroy_job" /\ @ # "unknown" THEN "destroyed"
                           ELSE @]

\* _send_json(obj, timeout): r is "ok" or the exception raised.  On a
\* connection the server has closed a send may still be accepted locally.
SendJson(s, t, cmd, timeout) ==
    UNION {IF g.r = "OSError" THEN {g}
           ELSE IF g.r = "none" THEN {[s |-> g.s, r |-> "AttributeError"]}
           ELSE IF g.s.link[t] = "up" THEN {[s |-> ServerHandle(g.s, t, cmd), r |-> "ok"]}
           ELSE {[s |-> g.s, r |-> "ok"], [s |-> g.s, r |-> "OSError"]} :
           g \in GetConnection(s, t, timeout)}

\* sock.recv(1024) gives up for want of data: socket.timeout, which
\* _recv_json turns into ProtocolTimeoutError, on a socket with a timeout;
\* BlockingIOError, an OSError, on the non-blocking socket settimeout(0) makes.
RecvTimesOut(timeout) == IF timeout = Some(0) THEN "OSError" ELSE "ProtocolTimeoutError"

\* _recv_json(timeout), entered when the clock read `deadline - timeout`.
\* r is "line" (line: the decoded object; read: the socket was read) or the
\* exception raised.
RecvJson(s, t, timeout, deadline) ==
    UNION {IF g.r = "OSError" THEN {[s |-> g.s, r |-> "OSError", line |-> NoLine, read |-> FALSE]}
           ELSE IF g.r = "none"
                THEN {[s |-> g.s, r |-> "AttributeError", line |-> NoLine, read |-> FALSE]}
           ELSE IF g.s.buffer[t] # <<>>
                THEN {[s |-> [g.s EXCEPT !.buffer[t] = Tail(@)], r |-> "line",
                       line |-> Head(g.s.buffer[t]), read |-> FALSE]}
           ELSE {[s |-> [g.s EXCEPT !.buffer[t] = SubSeq(g.s.wire[t], 2, k),
                                    !.wire[t] = SubSeq(@, k + 1, Len(@))],
                  r |-> "line", line |-> Head(g.s.wire[t]), read |-> TRUE] :
                    k \in 1..Len(g.s.wire[t])}
                \cup {[s |-> g.s, r |-> "OSError", line |-> NoLine, read |-> TRUE] :
                        x \in IF g.s.link[t] = "down" THEN {1} ELSE {}}
                \cup {[s |-> g.s, r |-> RecvTimesOut(timeout), line |-> NoLine, read |-> TRUE] :
                        x \in IF deadline # None /\ now >= deadline[1] THEN {1} ELSE {}} :
           g \in GetConnection(s, t, timeout)}

\* self._notifications: append(obj) and popleft().
QueueAppend(q, obj) == Append(q, obj)
QueueLast(q) == q[Len(q)]
QueueFirst(q) == Head(q)
QueueRest(q) == Tail(q)

\* finish_time is None or finish_time > time.time()
OpenNoneExpired(finish) == finish # None /\ finish[1] > now
Open(finish) == finish = None \/ finish[1] > now

\* ----------------------------------------------------- call(), step by step
NoOut == [kind |-> "-", exc |-> "-", obj |-> NoLine]
Return(line) == [kind |-> "return", exc |-> "-", obj |-> line]
Raise(e) == [kind |-> "raise", exc |-> e, obj |-> NoLine]
NoFrame == [api |-> "-", name |-> "-", timeout |-> None, finish |-> None]

\* Thread t goes on at p; the frame of the call it made is gone.
Goto(t, p) ==
    /\ pc' = [pc EXCEPT ![t] = p]
    /\ st' = [st EXCEPT ![t] = "-"]
    /\ cf' = [cf EXCEPT ![t] = NoFrame]
    /\ out' = [out EXCEPT ![t] = NoOut]
    /\ rx' = [rx EXCEPT ![t] = <<>>]

\* call(name, timeout=timeout): finish_time, the command, _send_json.
CallStart(t, site, name, timeout) ==
    \E o \in SendJson(CS, t, name, timeout) :
        /\ SetCS(o.s)
        /\ pc' = [pc EXCEPT ![t] = site]
        /\ rx' = [rx EXCEPT ![t] = <<>>]
        /\ cf' = [cf EXCEPT ![t] = [api |-> "call", name |-> name, timeout |-> timeout,
                                    finish |-> IF timeout = None THEN None
                                               ELSE Some(now + timeout[1])]]
        /\ st' = [st EXCEPT ![t] = IF o.r = "ok" THEN "check" ELSE "ret"]
        /\ out' = [out EXCEPT ![t] = IF o.r = "ok" THEN NoOut ELSE Raise(o.r)]
        /\ UNCHANGED <<notifications, hvars>>

\* while finish_time is None or finish_time > time.time(): leaving the loop
\* is the end of call(), which then returns None.
CallCheck(t) ==
    /\ st[t] = "check"
    /\ IF Open(cf[t].finish)
       THEN st' = [st EXCEPT ![t] = "recv"] /\ out' = out
       ELSE st' = [st EXCEPT ![t] = "ret"] /\ out' = [out EXCEPT ![t] = Return(NoLine)]
    /\ UNCHANGED <<cvars, notifications, pc, cf, rx, hvars, now, avars, jvars>>

\* obj = self._recv_json(timeout=time_left) and the rest of the loop body.
CallRecv(t) ==
    /\ st[t] = "recv"
    /\ cf[t].api = "call"
    /\ \E o \in RecvJson(CS, t, cf[t].timeout, cf[t].finish) :
        /\ SetCS(o.s)
        /\ IF o.r # "line"
           THEN /\ st' = [st EXCEPT ![t] = "ret"]
                /\ out' = [out EXCEPT ![t] = Raise(o.r)]
                /\ UNCHANGED <<notifications, rx, arrived>>
           ELSE /\ rx' = [rx EXCEPT ![t] = Append(@, o.line)]
                /\ IF o.line.ret
                   THEN /\ st' = [st EXCEPT ![t] = "ret"]
                        /\ out' = [out EXCEPT ![t] = Return(o.line)]
                        /\ UNCHANGED <<notifications, arrived>>
                   ELSE /\ st' = [st EXCEPT ![t] = "check"]
                        /\ notifications' = QueueAppend(notifications, o.line)
                        /\ arrived' = Append(arrived, o.line)
                        /\ out' = out
    /\ UNCHANGED <<pc, cf, delivered, now, avars, jvars>>

\* wait_for_notification(timeout) up to the receive.
WfnStart(t, site, timeout) ==
    /\ pc' = [pc EXCEPT ![t] = site]
    /\ rx' = [rx EXCEPT ![t] = <<>>]
    /\ cf' = [cf EXCEPT ![t] = [api |-> "wfn", name |-> "-", timeout |-> timeout,
                                finish |-> IF timeout = None THEN None
                                           ELSE Some(now + timeout[1])]]
    /\ IF notifications # <<>>
       THEN /\ notifications' = QueueRest(notifications)
            /\ delivered' = Append(delivered, QueueFirst(notifications))
            /\ st' = [st EXCEPT ![t] = "ret"]
            /\ out' = [out EXCEPT ![t] = Return(QueueFirst(notifications))]
       ELSE /\ UNCHANGED <<notifications, delivered>>
            /\ IF timeout = None \/ timeout[1] >= 0
               THEN st' = [st EXCEPT ![t] = "recv"] /\ out' = [out EXCEPT ![t] = NoOut]
               ELSE st' = [st EXCEPT ![t] = "ret"] /\ out' = [out EXCEPT ![t] = Return(NoLine)]
    /\ UNCHANGED <<cvars, arrived>>

\* return self._recv_json(timeout)
WfnRecv(t) ==
    /\ st[t] = "recv"
    /\ cf[t].api = "wfn"
    /\ \E o \in RecvJson(CS, t, cf[t].timeout, cf[t].finish) :
        /\ SetCS(o.s)
        /\ st' = [st EXCEPT ![t] = "ret"]
        /\ out' = [out EXCEPT ![t] = IF o.r = "line" THEN Return(o.line) ELSE Raise(o.r)]
        /\ rx' = [rx EXCEPT ![t] = IF o.r = "line" THEN Append(@, o.line) ELSE @]
    /\ UNCHANGED <<notifications, pc, cf, hvars, now, avars, jvars>>

\* ------------------------------------------------------------ environment
\* Time passes.
Tick ==
    /\ now < MaxTime
    /\ now' = now + 1
    /\ UNCHANGED <<cvars, notifications, tvars, avars, hvars, jvars>>

\* The server closes the connection of thread t.
ServerDrop(t) ==
    /\ link[t] = "up"
    /\ drops < MaxDrops
    /\ drops' = drops + 1
    /\ link' = [link EXCEPT ![t] = "down"]
    /\ sub' = [sub EXCEPT ![t] = FALSE]
    /\ UNCHANGED <<dead, socks, localSock, buffer, wire, jobState, serverVersion, serial,
                   notifications, now, tvars, avars, hvars, jvars>>

\* The lines w with line added as the server sends it: after the others, or
\* before the response to the command the client last sent, which the server
\* may not have written yet.
ServerSends(w, line) ==
    {Append(w, line)} \cup
    {SubSeq(w, 1, Len(w) - 1) \o <<line, w[Len(w)]>> :
        x \in IF w # <<>> /\ w[Len(w)].ret /\ w[Len(w)].cur THEN {1} ELSE {}}

\* The server pushes a notification on the connection of thread t.
ServerPush(t) ==
    /\ link[t] = "up"
    /\ serial < MaxNotes
    /\ serial' = serial + 1
    /\ \E w \in ServerSends(wire[t], Notification(serial + 1)) :
            wire' = [wire EXCEPT ![t] = w]
    /\ UNCHANGED <<dead, socks, localSock, buffer, link, sub, jobState, serverVersion, drops,
                   notifications, now, tvars, avars, hvars, jvars>>

\* The states the server may move the job to by itself.
NextJobState(s) ==
    IF s = "queued" THEN {"power", "destroyed"}
    ELSE IF s = "power" THEN {"ready", "destroyed"}
    ELSE IF s = "ready" THEN {"power", "destroyed"}
    ELSE IF s = "destroyed" THEN {"unknown"}
    ELSE {}

\* The job changes state on the server, which tells the connections that
\* asked for it.
ServerChange ==
    /\ serial < MaxNotes
    /\ \E s2 \in NextJobState(jobState) : jobState' = s2
    /\ serial' = serial + 1
    /\ wire' = [t \in Threads |->
                    IF sub[t] /\ link[t] = "up"
                    THEN Append(wire[t], Notification(serial + 1)) ELSE wire[t]]
    /\ UNCHANGED <<dead, socks, localSock, buffer, link, sub, serverVersion, drops,
                   notifications, now, tvars, avars, hvars, jvars>>

\* ------------------------------------------- a caller of ProtocolClient
Commands == {"version", "notify_job"}
CallTimeouts == {None, Some(0), Some(1)}
WaitTimeouts == {None, Some(0 - 1), Some(0), Some(1)}

ClientCall(t) ==
    /\ pc[t] = "idle"
    /\ ops < MaxOps
    /\ ops' = ops + 1
    /\ \E name \in Commands, timeout \in CallTimeouts : CallStart(t, "c_call", name, timeout)
    /\ UNCHANGED <<now, res, jvars>>

ClientWait(t) ==
    /\ pc[t] = "idle"
    /\ ops < MaxOps
    /\ ops' = ops + 1
    /\ \E timeout \in WaitTimeouts : WfnStart(t, "c_wfn", timeout)
    /\ UNCHANGED <<now, res, jvars>>

\* The call is over: its outcome goes to the caller.
ClientDone(t) ==
    /\ pc[t] \in {"c_call", "c_wfn"}
    /\ st[t] = "ret"
    /\ res' = [res EXCEPT ![t] = [op |-> cf[t].api, out |-> out[t], rx |-> rx[t]]]
    /\ Goto(t, "idle")
    /\ UNCHANGED <<cvars, notifications, now, ops, hvars, jvars>>

\* ---------------------------------------------------------------- Job
ReconnectDelay == 1
TimeoutCfgs == {None, Some(1)}
KeepaliveCfgs == {None, Some(2)}
WfOlds == {"unknown", "queued"}
WfTimeouts == {None, Some(0), Some(2)}
WuTimeouts == {None, Some(2)}

\* keepalive / 2.0
Whole(k) == k
Half(k) == k \div 2

\* except (IOError, OSError, ProtocolTimeoutError)
Comm == {"OSError", "ProtocolTimeoutError"}

\* with self._client_lock: the lock can be taken
CanAcquireAlways(t) == TRUE
CanAcquire(t) == lock = "free"

JobVal(v, reason) == [NoLine EXCEPT !.val = v, !.reason = reason]
NoRes == [op |-> "-", out |-> NoOut, rx |-> <<>>]
\* The frames of wait_for_state_change and wait_until_ready, before a call.
NoWf == [old |-> "-", finish |-> None, caller |-> "-", seen |-> "-", ret |-> "-",
         caught |-> FALSE]
NoWu == [cur |-> "None", finish |-> None]

\* The method op of Job ends in the caller's thread with outcome o.
End(op, o) ==
    /\ res' = [res EXCEPT !["fg"] = [op |-> op, out |-> o, rx |-> <<>>]]
    /\ Goto("fg", "idle")

FgEnd(o) == End(top, o)

\* The method op of Job was the caller's last and is over.
Ended(op) == pc["fg"] = "idle" /\ res["fg"].op = op

\* A method of Job begins: the outcome and the frames of the previous one
\* are gone.
Forget ==
    /\ res' = [res EXCEPT !["fg"] = NoRes]
    /\ wf' = NoWf
    /\ wu' = NoWu

\* v_ints = tuple(map(int, v.split(".")[:3])) for the versions a server may
\* report.
VersionStrings == {"0.0.1", "0.0.2", "0.2.0", "1.0.0", "1.9.9", "2.0.0", "2.0.0.1"}
VersionInts(v) ==
    IF v = "0.0.1" THEN <<0, 0, 1>>
    ELSE IF v = "0.0.2" THEN <<0, 0, 2>>
    ELSE IF v = "0.2.0" THEN <<0, 2, 0>>
    ELSE IF v = "1.0.0" THEN <<1, 0, 0>>
    ELSE IF v = "1.9.9" THEN <<1, 9, 9>>
    ELSE <<2, 0, 0>>
TupleLess(a, b) ==
    \/ a[1] < b[1]
    \/ a[1] = b[1] /\ a[2] < b[2]
    \/ a[1] = b[1] /\ a[2] = b[2] /\ a[3] < b[3]
\* (0, 0, 2) <= v_ints < (2, 0, 0)
CompatibleUpTo(v) ==
    /\ ~TupleLess(VersionInts(v), <<0, 0, 2>>)
    /\ ~TupleLess(<<2, 0, 0>>, VersionInts(v))
Compatible(v) ==
    /\ ~TupleLess(VersionInts(v), <<0, 0, 2>>)
    /\ TupleLess(VersionInts(v), <<2, 0, 0>>)

\* What _assert_compatible_version makes of the outcome o of version():
\* "-" when it returns, else the exception that leaves it.
VersionCheck(o) ==
    IF o.kind = "raise" THEN o.exc
    ELSE IF o.obj.val \notin VersionStrings THEN "AttributeError"
    ELSE IF ~Compatible(o.obj.val) THEN "ValueError"
    ELSE "-"

\* What get_state() makes of the outcome o of get_job_state().
StateResult(o) ==
    IF o.kind = "raise" THEN o
    ELSE IF o.obj.val \in JobStates THEN Return(JobVal(o.obj.val, o.obj.reason))
    ELSE Raise("TypeError")

\* create(): self._client.connect(timeout=self._timeout); c is who calls it
CreateBy(c) ==
    /\ pc["fg"] = "idle"
    /\ ops < MaxOps
    /\ called = {}
    /\ ops' = ops + 1
    /\ called' = {"create"} \cup c
    /\ top' = "create"
    /\ \E o \in Connect(CS, "fg", timeoutCfg) :
        /\ SetCS(o.s)
        /\ IF o.r = "ok" THEN Goto("fg", "cr_connected") /\ res' = [res EXCEPT !["fg"] = NoRes]
           ELSE End("create", Raise(o.r))
    /\ wf' = NoWf
    /\ wu' = NoWu
    /\ UNCHANGED <<notifications, now, hvars, id, stopEv, lock, timeoutCfg, keepalive, wvars, term, sent, wake>>

Create == CreateBy({})

\* _assert_compatible_version(): v = self._client.version(timeout=self._timeout)
AssertVersion(t) ==
    /\ pc[t] \in {"cr_connected", "rc_connected"}
    /\ CallStart(t, IF pc[t] = "cr_connected" THEN "cr_version" ELSE "rc_version",
                 "version", timeoutCfg)
    /\ UNCHANGED <<now, avars, jvars>>

\* _reconnect() returns in thread t: the caller's loop goes on.
ReconnectReturns(t) ==
    /\ Goto(t, IF t = "fg" THEN "wf_outer" ELSE "bg_try")
    /\ lock' = IF t = "fg" THEN "free" ELSE lock
    /\ res' = res

\* The exception e leaves _reconnect() in thread t: it ends the method the
\* caller is in, or the keepalive thread.
ReconnectRaises(t, e) ==
    /\ lock' = "free"
    /\ IF t = "fg" THEN FgEnd(Raise(e))
       ELSE /\ Goto("bg", "bg_died")
            /\ res' = [res EXCEPT !["bg"] = [op |-> "_keepalive_thread", out |-> Raise(e),
                                            rx |-> <<>>]]

\* The rest of _assert_compatible_version(), and what follows it: create_job
\* in create(), the end of _reconnect().
AssertVersionDone(t) ==
    /\ pc[t] \in {"cr_version", "rc_version"}
    /\ st[t] = "ret"
    /\ LET e == VersionCheck(out[t])
           s == IF e = "ValueError" THEN Close(CS, t) ELSE CS
       IN  IF pc[t] = "cr_version"
           THEN IF e = "-"
                THEN CallStart(t, "cr_create", "create_job", timeoutCfg) /\ UNCHANGED <<res, lock>>
                ELSE SetCS(s) /\ End("create", Raise(e)) /\ UNCHANGED <<notifications, hvars, lock>>
           ELSE /\ UNCHANGED <<notifications, hvars>>
                /\ IF e = "-" THEN SetCS(s) /\ ReconnectReturns(t)
                   ELSE IF e = "OSError" THEN SetCS(Close(CS, t)) /\ ReconnectReturns(t)
                   ELSE SetCS(s) /\ ReconnectRaises(t, e)
    /\ UNCHANGED <<now, ops, id, stopEv, timeoutCfg, keepalive, wvars, term, sent, wake, top, called, wf, wu>>

\* self.id = self._client.create_job(...): what create_job returned
JobIdFromCommand(o) == o.obj.cmd
JobId(o) == o.obj.val

\* create(): self.id = ...; self._keepalive_thread.start()
CreateJobDone ==
    /\ pc["fg"] = "cr_create"
    /\ st["fg"] = "ret"
    /\ IF out["fg"].kind = "raise"
       THEN /\ End("create", out["fg"])
            /\ UNCHANGED <<id, wake>>
       ELSE /\ id' = JobId(out["fg"])
            /\ res' = [res EXCEPT !["fg"] = [op |-> "create", out |-> Return(NoLine), rx |-> <<>>]]
            /\ pc' = [pc EXCEPT !["fg"] = "idle", !["bg"] = "bg_wait"]
            /\ st' = [st EXCEPT !["fg"] = "-"]
            /\ cf' = [cf EXCEPT !["fg"] = NoFrame]
            /\ out' = [out EXCEPT !["fg"] = NoOut]
            /\ rx' = [rx EXCEPT !["fg"] = <<>>]
            /\ wake' = [wake EXCEPT !["bg"] = IF keepalive = None THEN None
                                              ELSE Some(now + Half(keepalive[1]))]
    /\ UNCHANGED <<cvars, notifications, now, ops, hvars, stopEv, lock, timeoutCfg,
                   keepalive, wvars, term, sent, top, called, wf, wu>>

\* _reconnect(): self._client.connect(self._timeout) and what its outcome
\* leads to.
DoReconnect(t) ==
    \E o \in Connect(CS, t, timeoutCfg) :
        IF o.r = "ok" THEN SetCS(o.s) /\ Goto(t, "rc_connected") /\ UNCHANGED <<lock, res>>
        ELSE IF o.r = "OSError" THEN SetCS(Close(o.s, t)) /\ ReconnectReturns(t)
        ELSE SetCS(o.s) /\ ReconnectRaises(t, o.r)

\* --------------------------------------------------- _keepalive_thread()
\* while not self._stop.wait(keepalive)
BgWait ==
    /\ pc["bg"] = "bg_wait"
    /\ IF stopEv THEN Goto("bg", "bg_exit")
       ELSE /\ wake["bg"] # None
            /\ now >= wake["bg"][1]
            /\ Goto("bg", "bg_lock")
    /\ UNCHANGED <<cvars, notifications, now, avars, hvars, jvars>>

\* with self._client_lock
BgLock ==
    /\ pc["bg"] = "bg_lock"
    /\ CanAcquire("bg")
    /\ lock' = "bg"
    /\ Goto("bg", "bg_try")
    /\ UNCHANGED <<cvars, notifications, now, avars, hvars, id, stopEv, timeoutCfg,
                   keepalive, wvars, term, sent, wake, top, called, wf, wu>>

\* while not self._stop.is_set(): self._client.job_keepalive(...)
BgTry ==
    /\ pc["bg"] = "bg_try"
    /\ IF stopEv
       THEN /\ lock' = "free"
            /\ Goto("bg", "bg_wait")
            /\ UNCHANGED <<cvars, notifications, hvars>>
       ELSE /\ CallStart("bg", "bg_keep", "job_keepalive", timeoutCfg)
            /\ lock' = lock
    /\ UNCHANGED <<now, avars, id, stopEv, timeoutCfg, keepalive, wvars, term, sent, wake, top, called, wf, wu>>

\* break, or the except clause up to self._stop.wait(self._reconnect_delay)
BgKeepDone ==
    /\ pc["bg"] = "bg_keep"
    /\ st["bg"] = "ret"
    /\ IF out["bg"].kind = "return"
       THEN /\ lock' = "free"
            /\ Goto("bg", "bg_wait")
            /\ wake' = [wake EXCEPT !["bg"] = IF keepalive = None THEN None
                                              ELSE Some(now + Half(keepalive[1]))]
            /\ UNCHANGED <<cvars, res>>
       ELSE IF out["bg"].exc \in Comm
       THEN /\ SetCS(Close(CS, "bg"))
            /\ Goto("bg", "bg_delay")
            /\ wake' = [wake EXCEPT !["bg"] = Some(now + ReconnectDelay)]
            /\ UNCHANGED <<lock, res>>
       ELSE /\ lock' = "free"
            /\ Goto("bg", "bg_died")
            /\ res' = [res EXCEPT !["bg"] = [op |-> "_keepalive_thread", out |-> out["bg"],
                                            rx |-> <<>>]]
            /\ UNCHANGED <<cvars, wake>>
    /\ UNCHANGED <<notifications, now, ops, hvars, id, stopEv, timeoutCfg, keepalive, wvars, term, sent, top,
                   called, wf, wu>>

\* self._stop.wait(self._reconnect_delay) returns True: the event is set,
\* whatever is left of the delay.
DelayRunsOut == FALSE
DelayAborted == stopEv

\* if not self._stop.wait(self._reconnect_delay): self._reconnect()
BgDelay ==
    /\ pc["bg"] = "bg_delay"
    /\ IF DelayAborted
       THEN Goto("bg", "bg_try") /\ UNCHANGED <<cvars, lock, res>>
       ELSE now >= wake["bg"][1] /\ DoReconnect("bg")
    /\ UNCHANGED <<notifications, now, ops, hvars, id, stopEv, timeoutCfg, keepalive, wvars, term, sent, wake,
                   top, called, wf, wu>>

\* ------------------------------------------------------------ destroy()
\* self._stop.set(); self._keepalive_thread.join() begins
DestroyBy(c) ==
    /\ pc["fg"] = "idle"
    /\ "destroy" \notin called
    /\ called' = called \cup {"destroy"} \cup c
    /\ top' = "destroy"
    /\ stopEv' = TRUE
    /\ IF pc["bg"] = "unstarted" THEN End("destroy", Raise("RuntimeError"))
       ELSE Goto("fg", "de_join") /\ res' = [res EXCEPT !["fg"] = NoRes]
    /\ wf' = NoWf
    /\ wu' = NoWu
    /\ UNCHANGED <<cvars, notifications, now, hvars, id, lock, timeoutCfg, keepalive, wvars, term, sent, wake>>

\* destroy() called by the user of a Job that is not used as a context manager
Destroy ==
    /\ ops < MaxOps
    /\ "__enter__" \notin called
    /\ ops' = ops + 1
    /\ DestroyBy({})

\* self._keepalive_thread.join() returns: the thread has ended
JoinedAtOnce == TRUE
Joined == pc["bg"] \in {"bg_exit", "bg_died"}

\* join() returns; self._client.destroy_job(self.id, reason)
DestroyJoin ==
    /\ pc["fg"] = "de_join"
    /\ Joined
    /\ CallStart("fg", "de_call", "destroy_job", None)
    /\ UNCHANGED <<now, avars, jvars>>

\* except (IOError, OSError, ProtocolTimeoutError): warning; self._client.close()
DestroyDone ==
    /\ pc["fg"] = "de_call"
    /\ st["fg"] = "ret"
    /\ IF out["fg"].kind = "raise" /\ out["fg"].exc \notin Comm
       THEN FgEnd(out["fg"]) /\ UNCHANGED cvars
       ELSE FgEnd(Return(NoLine)) /\ SetCS(Close(CS, "fg"))
    /\ UNCHANGED <<notifications, now, ops, hvars, jvars>>

\* --------------------------------- get_state(), set_power(), get_machine_info()
\* The user may call a method: no other is under way, destroy() has not been
\* called and, with the Job as a context manager, the body of the with
\* statement has been entered.
MayCall ==
    /\ pc["fg"] = "idle"
    /\ ops < MaxOps
    /\ "destroy" \notin called
    /\ "__enter__" \in called => "body" \in called

GetState ==
    /\ MayCall
    /\ CanAcquire("fg")
    /\ ops' = ops + 1
    /\ top' = "get_state"
    /\ lock' = "fg"
    /\ CallStart("fg", "gs_call", "get_job_state", timeoutCfg)
    /\ Forget
    /\ UNCHANGED <<now, id, stopEv, timeoutCfg, keepalive, wvars, term, sent, wake, called>>

GetStateDone ==
    /\ pc["fg"] = "gs_call"
    /\ st["fg"] = "ret"
    /\ lock' = "free"
    /\ FgEnd(StateResult(out["fg"]))
    /\ UNCHANGED <<cvars, notifications, now, ops, hvars, id, stopEv, timeoutCfg, keepalive, wvars, term, sent,
                   wake, top, called, wf, wu>>

SetPower ==
    /\ MayCall
    /\ CanAcquire("fg")
    /\ ops' = ops + 1
    /\ top' = "set_power"
    /\ lock' = "fg"
    /\ CallStart("fg", "sp_call", "power_on_job_boards", timeoutCfg)
    /\ Forget
    /\ UNCHANGED <<now, id, stopEv, timeoutCfg, keepalive, wvars, term, sent, wake, called>>

SetPowerDone ==
    /\ pc["fg"] = "sp_call"
    /\ st["fg"] = "ret"
    /\ lock' = "free"
    /\ FgEnd(IF out["fg"].kind = "raise" THEN out["fg"] ELSE Return(NoLine))
    /\ UNCHANGED <<cvars, notifications, now, ops, hvars, id, stopEv, timeoutCfg, keepalive, wvars, term, sent,
                   wake, top, called, wf, wu>>

GetMachineInfo ==
    /\ MayCall
    /\ CanAcquire("fg")
    /\ ops' = ops + 1
    /\ top' = "get_machine_info"
    /\ lock' = "fg"
    /\ CallStart("fg", "mi_call", "get_job_machine_info", timeoutCfg)
    /\ Forget
    /\ UNCHANGED <<now, id, stopEv, timeoutCfg, keepalive, wvars, term, sent, wake, called>>

\* info["width"] and the rest need the reply to get_job_machine_info
GetMachineInfoDone ==
    /\ pc["fg"] = "mi_call"
    /\ st["fg"] = "ret"
    /\ lock' = "free"
    /\ FgEnd(IF out["fg"].kind = "raise" THEN out["fg"]
             ELSE IF out["fg"].obj.val = "info" THEN Return(JobVal("info", "None"))
             ELSE Raise("TypeError"))
    /\ UNCHANGED <<cvars, notifications, now, ops, hvars, id, stopEv, timeoutCfg, keepalive, wvars, term, sent,
                   wake, top, called, wf, wu>>

\* ------------------------------------------------ wait_for_state_change()
\* wait_for_state_change returns v; w is its frame.
WfReturn(v, w) ==
    /\ wf' = [w EXCEPT !.ret = v]
    /\ IF w.caller = "wur"
       THEN /\ wu' = [wu EXCEPT !.cur = v]
            /\ Goto("fg", "wu_loop")
            /\ res' = res
       ELSE /\ wu' = wu
            /\ FgEnd(Return(JobVal(v, "None")))

\* An exception e of a call made inside the try block of
\* wait_for_state_change: caught when it is in Comm, else it ends the method.
WfRaise(e) ==
    IF e \in Comm
    THEN Goto("fg", "wf_except") /\ wf' = [wf EXCEPT !.caught = TRUE] /\ res' = res
    ELSE FgEnd(Raise(e)) /\ wf' = wf

\* finish_time = time.time() + timeout if timeout is not None else None
WfCall ==
    /\ MayCall
    /\ ops' = ops + 1
    /\ top' = "wait_for_state_change"
    /\ \E old \in WfOlds, timeout \in WfTimeouts :
        wf' = [NoWf EXCEPT !.old = old, !.caller = "user",
                           !.finish = IF timeout = None THEN None
                                      ELSE Some(now + timeout[1])]
    /\ Goto("fg", "wf_outer")
    /\ res' = [res EXCEPT !["fg"] = NoRes]
    /\ wu' = NoWu
    /\ UNCHANGED <<cvars, notifications, now, hvars, id, stopEv, lock, timeoutCfg,
                   keepalive, wvars, term, sent, wake, called>>

\* The first statement of the try block of the outer while: the one that
\* sends notify_job (WfNotify).
WfTryBlockSkipsNotify == "wf_mid"
WfTryBlock == "wf_o_lock"

\* the outer while, and the final return old_state
WfOuter ==
    /\ pc["fg"] = "wf_outer"
    /\ IF Open(wf.finish) THEN Goto("fg", WfTryBlock) /\ UNCHANGED <<wf, wu, res>>
       ELSE WfReturn(wf.old, wf)
    /\ UNCHANGED <<cvars, notifications, now, ops, hvars, id, stopEv, lock, timeoutCfg,
                   keepalive, wvars, term, sent, wake, top, called>>

\* with self._client_lock: self._client.notify_job(self.id)
WfNotify ==
    /\ pc["fg"] = "wf_o_lock"
    /\ CanAcquire("fg")
    /\ lock' = "fg"
    /\ CallStart("fg", "wf_notify", "notify_job", None)
    /\ UNCHANGED <<now, avars, id, stopEv, timeoutCfg, keepalive, wvars, term, sent, wake, top, called, wf, wu>>

WfNotifyDone ==
    /\ pc["fg"] = "wf_notify"
    /\ st["fg"] = "ret"
    /\ lock' = "free"
    /\ IF out["fg"].kind = "return" THEN Goto("fg", "wf_mid") /\ UNCHANGED <<wf, res>>
       ELSE WfRaise(out["fg"].exc)
    /\ UNCHANGED <<cvars, notifications, now, ops, hvars, id, stopEv, timeoutCfg, keepalive, wvars, term, sent,
                   wake, top, called, wu>>

\* the middle while
WfMid ==
    /\ pc["fg"] = "wf_mid"
    /\ Goto("fg", IF Open(wf.finish) THEN "wf_m_lock" ELSE "wf_outer")
    /\ UNCHANGED <<cvars, notifications, now, avars, hvars, jvars>>

\* new_state = self.get_state().state
WfGetState ==
    /\ pc["fg"] = "wf_m_lock"
    /\ CanAcquire("fg")
    /\ lock' = "fg"
    /\ CallStart("fg", "wf_state", "get_job_state", timeoutCfg)
    /\ UNCHANGED <<now, avars, id, stopEv, timeoutCfg, keepalive, wvars, term, sent, wake, top, called, wf, wu>>

\* if new_state != old_state: return new_state
WfStateDone ==
    /\ pc["fg"] = "wf_state"
    /\ st["fg"] = "ret"
    /\ lock' = "free"
    /\ LET r == StateResult(out["fg"])
       IN  IF r.kind = "raise" THEN WfRaise(r.exc) /\ wu' = wu
           ELSE IF r.obj.val # wf.old THEN WfReturn(r.obj.val, [wf EXCEPT !.seen = r.obj.val])
           ELSE /\ Goto("fg", "wf_lock")
                /\ UNCHANGED <<wf, wu, res>>
    /\ UNCHANGED <<cvars, notifications, now, ops, hvars, id, stopEv, timeoutCfg, keepalive, wvars, term, sent,
                   wake, top, called>>

\* with self._client_lock (the one held across the notification wait)
WfLock ==
    /\ pc["fg"] = "wf_lock"
    /\ CanAcquire("fg")
    /\ lock' = "fg"
    /\ Goto("fg", "wf_in")
    /\ UNCHANGED <<cvars, notifications, now, avars, hvars, id, stopEv, timeoutCfg,
                   keepalive, wvars, term, sent, wake, top, called, wf, wu>>

\* the inner while: job_keepalive, or its else clause: return old_state
WfInner ==
    /\ pc["fg"] = "wf_in"
    /\ IF Open(wf.finish)
       THEN /\ CallStart("fg", "wf_keep", "job_keepalive", timeoutCfg)
            /\ UNCHANGED <<lock, wf, wu, res>>
       ELSE /\ lock' = "free"
            /\ WfReturn(wf.old, wf)
            /\ UNCHANGED <<cvars, notifications, hvars>>
    /\ UNCHANGED <<now, ops, id, stopEv, timeoutCfg, keepalive, wvars, term, sent, wake, top, called>>

\* wait_timeout, where both finish_time and self._keepalive are numbers or
\* finish_time alone is None or self._keepalive alone is None.
WaitTimeout ==
    IF wf.finish # None /\ keepalive # None
    THEN (IF Half(keepalive[1]) < wf.finish[1] - now THEN Half(keepalive[1])
          ELSE wf.finish[1] - now)
    ELSE IF wf.finish = None THEN Half(keepalive[1])
    ELSE wf.finish[1] - now

\* after job_keepalive: wait_timeout and wait_for_notification(wait_timeout)
WfKeepDone ==
    /\ pc["fg"] = "wf_keep"
    /\ st["fg"] = "ret"
    /\ IF out["fg"].kind = "raise"
       THEN /\ lock' = "free"
            /\ WfRaise(out["fg"].exc)
            /\ UNCHANGED <<cvars, notifications, hvars>>
       ELSE IF wf.finish = None /\ keepalive = None
       THEN /\ lock' = "free"
            /\ WfRaise("TypeError")
            /\ UNCHANGED <<cvars, notifications, hvars>>
       ELSE IF WaitTimeout >= 0
       THEN /\ WfnStart("fg", "wf_wait", Some(WaitTimeout))
            /\ UNCHANGED <<lock, wf, res>>
       ELSE /\ Goto("fg", "wf_in")
            /\ UNCHANGED <<cvars, notifications, hvars, lock, wf, res>>
    /\ UNCHANGED <<now, ops, id, stopEv, timeoutCfg, keepalive, wvars, term, sent, wake, top, called, wu>>

\* break, or except ProtocolTimeoutError: pass
WfWaitDone ==
    /\ pc["fg"] = "wf_wait"
    /\ st["fg"] = "ret"
    /\ IF out["fg"].kind = "return"
       THEN lock' = "free" /\ Goto("fg", "wf_mid") /\ UNCHANGED <<wf, res>>
       ELSE IF out["fg"].exc = "ProtocolTimeoutError"
       THEN lock' = lock /\ Goto("fg", "wf_in") /\ UNCHANGED <<wf, res>>
       ELSE lock' = "free" /\ WfRaise(out["fg"].exc)
    /\ UNCHANGED <<cvars, notifications, now, ops, hvars, id, stopEv, timeoutCfg, keepalive, wvars, term, sent,
                   wake, top, called, wu>>

\* delay, as the except clause computes it
Delay ==
    IF wf.finish # None
    THEN (IF wf.finish[1] - now < ReconnectDelay THEN wf.finish[1] - now ELSE ReconnectDelay)
    ELSE ReconnectDelay

\* the except clause: with self._client_lock: self._client.close(); the
\* sleep begins
WfExcept ==
    /\ pc["fg"] = "wf_except"
    /\ CanAcquire("fg")
    /\ lock' = "fg"
    /\ SetCS(Close(CS, "fg"))
    /\ wake' = [wake EXCEPT !["fg"] = Some(now + (IF Delay > 0 THEN Delay ELSE 0))]
    /\ Goto("fg", "wf_sleep")
    /\ UNCHANGED <<notifications, now, avars, hvars, id, stopEv, timeoutCfg, keepalive, wvars, term, sent,
                   top, called, wf, wu>>

\* the sleep ends: self._reconnect()
WfReconnect ==
    /\ pc["fg"] = "wf_sleep"
    /\ now >= wake["fg"][1]
    /\ DoReconnect("fg")
    /\ UNCHANGED <<notifications, now, ops, hvars, id, stopEv, timeoutCfg, keepalive, wvars, term, sent, wake,
                   top, called, wf, wu>>

\* --------------------------------------------------- wait_until_ready()
WuCall ==
    /\ MayCall
    /\ ops' = ops + 1
    /\ top' = "wait_until_ready"
    /\ \E timeout \in WuTimeouts :
        wu' = [cur |-> "None",
               finish |-> IF timeout = None THEN None ELSE Some(now + timeout[1])]
    /\ Goto("fg", "wu_loop")
    /\ res' = [res EXCEPT !["fg"] = NoRes]
    /\ wf' = NoWf
    /\ UNCHANGED <<cvars, notifications, now, hvars, id, stopEv, lock, timeoutCfg,
                   keepalive, wvars, term, sent, wake, called>>

\* the while, and raise StateChangeTimeoutError()
WuLoop ==
    /\ pc["fg"] = "wu_loop"
    /\ IF ~Open(wu.finish) THEN FgEnd(Raise("StateChangeTimeoutError"))
       ELSE Goto("fg", IF wu.cur = "None" THEN "wu_s_lock" ELSE "wu_eval") /\ res' = res
    /\ UNCHANGED <<cvars, notifications, now, ops, hvars, jvars>>

\* self.get_state(), for cur_state and for the reason
WuGetState ==
    /\ pc["fg"] \in {"wu_s_lock", "wu_r_lock"}
    /\ CanAcquire("fg")
    /\ lock' = "fg"
    /\ CallStart("fg", IF pc["fg"] = "wu_s_lock" THEN "wu_state" ELSE "wu_reason",
                 "get_job_state", timeoutCfg)
    /\ UNCHANGED <<now, avars, id, stopEv, timeoutCfg, keepalive, wvars, term, sent, wake, top, called, wf, wu>>

\* cur_state = self.get_state().state
WuStateDone ==
    /\ pc["fg"] = "wu_state"
    /\ st["fg"] = "ret"
    /\ lock' = "free"
    /\ LET r == StateResult(out["fg"])
       IN  IF r.kind = "raise" THEN FgEnd(r) /\ wu' = wu
           ELSE Goto("fg", "wu_eval") /\ wu' = [wu EXCEPT !.cur = r.obj.val] /\ res' = res
    /\ UNCHANGED <<cvars, notifications, now, ops, hvars, id, stopEv, timeoutCfg, keepalive, wvars, term, sent,
                   wake, top, called, wf>>

\* the if chain on cur_state, and the call of wait_for_state_change
WuEval ==
    /\ pc["fg"] = "wu_eval"
    /\ IF wu.cur = "ready" THEN FgEnd(Return(NoLine)) /\ wf' = wf
       ELSE IF wu.cur = "destroyed" THEN Goto("fg", "wu_r_lock") /\ UNCHANGED <<wf, res>>
       ELSE IF wu.cur = "unknown"
       THEN FgEnd([kind |-> "raise", exc |-> "JobDestroyedError",
                   obj |-> JobVal("-", "Server no longer recognises job.")]) /\ wf' = wf
       ELSE /\ wf' = [NoWf EXCEPT !.old = wu.cur, !.caller = "wur", !.finish = wu.finish]
            /\ Goto("fg", "wf_outer")
            /\ res' = res
    /\ UNCHANGED <<cvars, notifications, now, ops, hvars, id, stopEv, lock, timeoutCfg,
                   keepalive, wvars, term, sent, wake, top, called, wu>>

\* raise JobDestroyedError(self.get_state().reason)
WuReasonDone ==
    /\ pc["fg"] = "wu_reason"
    /\ st["fg"] = "ret"
    /\ lock' = "free"
    /\ LET r == StateResult(out["fg"])
       IN  IF r.kind = "raise" THEN FgEnd(r)
           ELSE FgEnd([kind |-> "raise", exc |-> "JobDestroyedError",
                       obj |-> JobVal("-", r.obj.reason)])
    /\ UNCHANGED <<cvars, notifications, now, ops, hvars, id, stopEv, timeoutCfg, keepalive, wvars, term, sent,
                   wake, top, called, wf, wu>>

\* ------------------------------------------- with Job(...) as j: body
\* What `called` holds besides create and destroy when the Job is used as a
\* context manager: "__enter__" once the with statement has begun,
\* "wait_until_ready" once __enter__ has called it, "body" once __enter__ has
\* returned, "__exit__" once the body has been left, "raised" once an
\* exception has left __enter__.

\* __enter__(): self.create()
Enter == CreateBy({"__enter__"})

\* create() is over: the exception leaves __enter__, or
\* self.wait_until_ready() begins
EnterWait ==
    /\ called = {"create", "__enter__"}
    /\ Ended("create")
    /\ IF res["fg"].out.kind = "raise"
       THEN /\ called' = called \cup {"raised"}
            /\ UNCHANGED <<tvars, res, top, wf, wu>>
       ELSE /\ called' = called \cup {"wait_until_ready"}
            /\ top' = "wait_until_ready"
            /\ wu' = [cur |-> "None", finish |-> None]
            /\ Goto("fg", "wu_loop")
            /\ res' = [res EXCEPT !["fg"] = NoRes]
            /\ wf' = NoWf
    /\ UNCHANGED <<cvars, notifications, now, ops, hvars, id, stopEv, lock, timeoutCfg,
                   keepalive, wvars, term, sent, wake>>

\* except: (a bare except clause takes every exception)
EnterCatchesComm(o) == o.kind = "raise" /\ o.exc \in Comm
EnterCatches(o) == o.kind = "raise"

\* wait_until_ready() is over: return self, or self.destroy() and raise
EnterDone ==
    /\ "wait_until_ready" \in called
    /\ called \cap {"body", "raised"} = {}
    /\ Ended("wait_until_ready")
    /\ IF EnterCatches(res["fg"].out) THEN DestroyBy({"raised"})
       ELSE /\ called' = called \cup {IF res["fg"].out.kind = "return" THEN "body" ELSE "raised"}
            /\ UNCHANGED <<cvars, notifications, now, hvars, id, lock, timeoutCfg, keepalive,
                           wvars, term, sent, wake, tvars, res, top, stopEv, wf, wu>>
    /\ ops' = ops

\* __exit__(): self.destroy()
Exit ==
    /\ "body" \in called
    /\ DestroyBy({"__exit__"})
    /\ ops' = ops

\* ------------------------------------------------------------ the scripts
\* spalloc-job (scripts/job.py) and the keepalive process
\* (_keepalive_process.py), each run by the thread "fg" on a ProtocolClient
\* of its own; self-standing functions are given a client just constructed.
svars == <<id, lock, timeoutCfg, keepalive, wvars, term, wake, called, wf, wu>>

\* return n
ExitCode(n) == Return(JobVal(n, "None"))

\* client.<name>(..., timeout=timeout) of a script; the command is on record
\* once it has been sent.
ScriptCall(site, name) ==
    /\ CallStart("fg", site, name, timeoutCfg)
    /\ sent' = IF st'["fg"] = "check" THEN Append(sent, name) ELSE sent

\* Before the script runs the job has been created, by another client, and
\* has gone on from there.
JobAllocated ==
    /\ top = "-"
    /\ jobState = "unknown"
    /\ jobState' \in {"queued", "power", "ready", "destroyed"}
    /\ UNCHANGED <<dead, socks, localSock, buffer, wire, link, sub, serverVersion, serial, drops,
                   notifications, now, tvars, avars, hvars, jvars>>

\* power_job(client, timeout, job_id, power): the power command
PowerJob ==
    /\ pc["fg"] = "idle"
    /\ top = "-"
    /\ top' = "power_job"
    /\ \E power \in BOOLEAN :
        ScriptCall("pj_power", IF power THEN "power_on_job_boards" ELSE "power_off_job_boards")
    /\ UNCHANGED <<now, avars, stopEv, svars>>

\* while True: client.notify_job(job_id, timeout=timeout), after the power
\* command
PjPowerDone ==
    /\ pc["fg"] = "pj_power"
    /\ st["fg"] = "ret"
    /\ IF out["fg"].kind = "raise"
       THEN FgEnd(out["fg"]) /\ UNCHANGED <<cvars, notifications, hvars, sent>>
       ELSE ScriptCall("pj_notify", "notify_job") /\ res' = res
    /\ UNCHANGED <<now, ops, stopEv, svars, top>>

\* state = client.get_job_state(job_id, timeout=timeout)
PjNotifyDone ==
    /\ pc["fg"] = "pj_notify"
    /\ st["fg"] = "ret"
    /\ IF out["fg"].kind = "raise"
       THEN FgEnd(out["fg"]) /\ UNCHANGED <<cvars, notifications, hvars, sent>>
       ELSE ScriptCall("pj_state", "get_job_state") /\ res' = res
    /\ UNCHANGED <<now, ops, stopEv, svars, top>>

\* What power_job does with state["state"]: the code it returns, or "wait".
DecideReadyOrPower(v) == IF v \in {"ready", "power"} THEN "0" ELSE "8"
Decide(v) == IF v = "ready" THEN "0" ELSE IF v = "power" THEN "wait" ELSE "8"

\* if state["state"] == JobState.ready: return 0; elif ... == JobState.power:
\* client.wait_for_notification(); else: return 8
PjStateDone ==
    /\ pc["fg"] = "pj_state"
    /\ st["fg"] = "ret"
    /\ LET r == StateResult(out["fg"])
       IN  IF r.kind = "raise"
           THEN FgEnd(r) /\ UNCHANGED <<cvars, notifications, hvars>>
           ELSE IF Decide(r.obj.val) = "wait"
           THEN WfnStart("fg", "pj_wait", None) /\ res' = res
           ELSE FgEnd(ExitCode(Decide(r.obj.val))) /\ UNCHANGED <<cvars, notifications, hvars>>
    /\ UNCHANGED <<now, ops, stopEv, svars, sent, top>>

\* wait_for_notification() is over: the loop goes round
PjWaitDone ==
    /\ pc["fg"] = "pj_wait"
    /\ st["fg"] = "ret"
    /\ IF out["fg"].kind = "raise"
       THEN FgEnd(out["fg"]) /\ UNCHANGED <<cvars, notifications, hvars, sent>>
       ELSE ScriptCall("pj_notify", "notify_job") /\ res' = res
    /\ UNCHANGED <<now, ops, stopEv, svars, top>>

\* except KeyboardInterrupt: return 7
PjInterrupt ==
    /\ pc["fg"] = "pj_wait"
    /\ st["fg"] = "recv"
    /\ FgEnd(ExitCode("7"))
    /\ UNCHANGED <<cvars, notifications, now, ops, hvars, stopEv, svars, sent, top>>

\* keep_job_alive(...): client = ProtocolClient(hostname, port);
\* client.connect(timeout)
KeepJobAlive ==
    /\ pc["fg"] = "idle"
    /\ top = "-"
    /\ top' = "keep_job_alive"
    /\ \E o \in Connect(CS, "fg", timeoutCfg) :
        /\ SetCS(o.s)
        /\ IF o.r = "ok" THEN Goto("fg", "ka_wait") /\ res' = res
           ELSE End("keep_job_alive", Raise(o.r))
    /\ UNCHANGED <<notifications, now, ops, hvars, stopEv, svars, sent>>

\* wait_for_exit(stop_event): stop_event.set(), at "exit" or the end of
\* stdin
WaitForExit ==
    /\ ~stopEv
    /\ stopEv' = TRUE
    /\ UNCHANGED <<cvars, notifications, now, tvars, avars, hvars, svars, sent, top>>

\* main(): client = ProtocolClient(...); try: client.connect(), after which
\* the version query is due; when it raises, except (IOError, OSError,
\* ProtocolTimeoutError): return 1, and finally: client.close()
Main ==
    /\ pc["fg"] = "idle"
    /\ top = "-"
    /\ top' = "main"
    /\ \E o \in Connect(CS, "fg", None) :
        IF o.r = "ok"
        THEN /\ SetCS(o.s)
             /\ Goto("fg", "mn_connected")
             /\ res' = res
        ELSE /\ SetCS(Close(o.s, "fg"))
             /\ End("main", IF o.r \in Comm THEN ExitCode("1") ELSE Raise(o.r))
    /\ UNCHANGED <<notifications, now, ops, hvars, stopEv, svars, sent>>

\* ------------------------------------------------------- specifications
\* ----------------------------------------------------------- Terminal
\* spalloc.term.Terminal as its test drives it (tests/test_term.py).
\* No Terminal has been constructed.
NoTerm == [made |-> FALSE, enabled |-> FALSE, saved |-> FALSE, log |-> <<>>]

\* The control codes: save the cursor; restore the cursor and clear the line.
SaveCursor == "ESC7"
RestoreAndClear == "ESC8 ESC[K"

\* What update() is given as its string: a str or a number.
TermStrings == {[isInt |-> FALSE, s |-> "", n |-> 0], [isInt |-> FALSE, s |-> "foo", n |-> 0],
                [isInt |-> FALSE, s |-> "bar", n |-> 0], [isInt |-> TRUE, s |-> "", n |-> 123]}

\* str(string)
Str(a) == IF a.isInt THEN ToString(a.n) ELSE a.s

\* t(code): the code when enabled, "" when not
Code(enabled, code) == IF enabled THEN code ELSE ""

\* update() has no line of its own to go back to
NeedsSaveFirstOnly(saved, start_again) == ~saved
NeedsSave(saved, start_again) == start_again \/ ~saved

\* what is left unchanged by the Terminal
tmvars == <<cvars, notifications, now, tvars, res, hvars, id, stopEv, lock, timeoutCfg,
            keepalive, wvars, sent, wake, top, called, wf, wu>>

\* Terminal(force=force)
TermNew ==
    /\ ~term.made
    /\ \E force \in BOOLEAN : term' = [NoTerm EXCEPT !.made = TRUE, !.enabled = force]
    /\ UNCHANGED <<ops, tmvars>>

\* t.enabled = e
TermSetEnabled ==
    /\ term.made
    /\ term' = [term EXCEPT !.enabled = ~@]
    /\ UNCHANGED <<ops, tmvars>>

\* t.update(string, start_again): the code, then str(string)
TermUpdate ==
    /\ term.made
    /\ ops < MaxOps
    /\ ops' = ops + 1
    /\ \E string \in TermStrings, start_again \in BOOLEAN :
        LET code == IF NeedsSave(term.saved, start_again) THEN SaveCursor ELSE RestoreAndClear
        IN  term' = [term EXCEPT
                        !.saved = TRUE,
                        !.log = Append(@, [string |-> string, start_again |-> start_again,
                                           enabled |-> term.enabled,
                                           out |-> <<Code(term.enabled, code), Str(string)>>])]
    /\ UNCHANGED tmvars

InitCommon ==
    /\ dead = FALSE
    /\ socks = [t \in Threads |-> "absent"]
    /\ localSock = [t \in Threads |-> "unset"]
    /\ buffer = [t \in Threads |-> <<>>]
    /\ notifications = <<>>
    /\ wire = [t \in Threads |-> <<>>]
    /\ link = [t \in Threads |-> "none"]
    /\ sub = [t \in Threads |-> FALSE]
    /\ jobState = "unknown"
    /\ serial = 0
    /\ drops = 0
    /\ now = 0
    /\ pc = [t \in Threads |-> IF t = "fg" THEN "idle" ELSE "unstarted"]
    /\ st = [t \in Threads |-> "-"]
    /\ cf = [t \in Threads |-> NoFrame]
    /\ out = [t \in Threads |-> NoOut]
    /\ rx = [t \in Threads |-> <<>>]
    /\ ops = 0
    /\ res = [t \in Threads |-> NoRes]
    /\ delivered = <<>>
    /\ arrived = <<>>
    /\ id = "None"
    /\ stopEv = FALSE
    /\ lock = "free"
    /\ wake = [t \in Threads |-> None]
    /\ top = "-"
    /\ called = {}
    /\ wf = NoWf
    /\ wu = NoWu
    /\ table = [t \in Threads |-> 0]
    /\ fds = <<>>
    /\ tls = [t \in Threads |-> Unset]
    /\ stack = [t \in Threads |-> <<>>]
    /\ raised = [t \in Threads |-> "-"]
    /\ term = NoTerm
    /\ sent = <<>>

\* A ProtocolClient just constructed, used by one thread.
InitClient ==
    /\ InitCommon
    /\ serverVersion = "1.0.0"
    /\ timeoutCfg = None
    /\ keepalive = None

NextClient ==
    \/ ClientCall("fg")
    \/ ClientWait("fg")
    \/ CallCheck("fg")
    \/ CallRecv("fg")
    \/ WfnRecv("fg")
    \/ ClientDone("fg")
    \/ Tick
    \/ ServerDrop("fg")
    \/ ServerPush("fg")

SpecClient == InitClient /\ [][NextClient]_vars

\* A Job just constructed, with the timeout and keepalive of its configuration.
Init ==
    /\ InitCommon
    /\ serverVersion = "1.0.0"
    /\ timeoutCfg \in TimeoutCfgs
    /\ keepalive \in KeepaliveCfgs

Next ==
    \/ Create
    \/ \E t \in Threads : AssertVersion(t)
    \/ \E t \in Threads : AssertVersionDone(t)
    \/ CreateJobDone
    \/ Destroy
    \/ DestroyJoin
    \/ DestroyDone
    \/ GetState
    \/ GetStateDone
    \/ SetPower
    \/ SetPowerDone
    \/ GetMachineInfo
    \/ GetMachineInfoDone
    \/ WfCall
    \/ WfOuter
    \/ WfNotify
    \/ WfNotifyDone
    \/ WfMid
    \/ WfGetState
    \/ WfStateDone
    \/ WfLock
    \/ WfInner
    \/ WfKeepDone
    \/ WfWaitDone
    \/ WfExcept
    \/ WfReconnect
    \/ WuCall
    \/ WuLoop
    \/ WuGetState
    \/ WuStateDone
    \/ WuEval
    \/ WuReasonDone
    \/ BgWait
    \/ BgLock
    \/ BgTry
    \/ BgKeepDone
    \/ BgDelay
    \/ \E t \in Threads : CallCheck(t)
    \/ \E t \in Threads : CallRecv(t)
    \/ \E t \in Threads : WfnRecv(t)
    \/ Tick
    \/ \E t \in Threads : ServerDrop(t)
    \/ ServerChange

Spec == Init /\ [][Next]_vars

\* A Job just constructed and a server of any version: create(), and the
\* get_state() that may come before it.
InitGate ==
    /\ InitCommon
    /\ serverVersion \in VersionStrings
    /\ timeoutCfg \in TimeoutCfgs
    /\ keepalive \in KeepaliveCfgs

NextGate ==
    \/ GetState
    \/ GetStateDone
    \/ Create
    \/ AssertVersion("fg")
    \/ AssertVersionDone("fg")
    \/ CreateJobDone
    \/ CallCheck("fg")
    \/ CallRecv("fg")
    \/ Tick
    \/ ServerDrop("fg")

SpecGate == InitGate /\ [][NextGate]_vars

\* A Job just constructed and used as a context manager, with
\* get_machine_info() in the body of the with statement.
NextCtx ==
    \/ Enter
    \/ EnterWait
    \/ EnterDone
    \/ Exit
    \/ \E t \in Threads : AssertVersion(t)
    \/ \E t \in Threads : AssertVersionDone(t)
    \/ CreateJobDone
    \/ DestroyJoin
    \/ DestroyDone
    \/ GetMachineInfo
    \/ GetMachineInfoDone
    \/ WfOuter
    \/ WfNotify
    \/ WfNotifyDone
    \/ WfMid
    \/ WfGetState
    \/ WfStateDone
    \/ WfLock
    \/ WfInner
    \/ WfKeepDone
    \/ WfWaitDone
    \/ WfExcept
    \/ WfReconnect
    \/ WuLoop
    \/ WuGetState
    \/ WuStateDone
    \/ WuEval
    \/ WuReasonDone
    \/ BgWait
    \/ BgLock
    \/ BgTry
    \/ BgKeepDone
    \/ BgDelay
    \/ \E t \in Threads : CallCheck(t)
    \/ \E t \in Threads : CallRecv(t)
    \/ \E t \in Threads : WfnRecv(t)
    \/ Tick
    \/ \E t \in Threads : ServerDrop(t)
    \/ ServerChange

SpecCtx == Init /\ [][NextCtx]_vars

\* A program that makes a Terminal and calls update() on it.
NextTerm ==
    \/ TermNew
    \/ TermSetEnabled
    \/ TermUpdate

SpecTerm == InitClient /\ [][NextTerm]_vars

\* A script is run once, with any timeout, on a server whose version is in
\* the range the scripts accept or not; the keepalive process is given a
\* keepalive period.
ScriptServerVersions == {"1.0.0", "2.0.0"}
InitScripts ==
    /\ InitCommon
    /\ serverVersion \in ScriptServerVersions
    /\ timeoutCfg \in CallTimeouts
    /\ keepalive = Some(2)

NextScripts ==
    \/ JobAllocated
    \/ PowerJob
    \/ PjPowerDone
    \/ PjNotifyDone
    \/ PjStateDone
    \/ PjWaitDone
    \/ PjInterrupt
    \/ KeepJobAlive
    \/ WaitForExit
    \/ Main
    \/ CallCheck("fg")
    \/ CallRecv("fg")
    \/ WfnRecv("fg")
    \/ Tick
    \/ ServerDrop("fg")
    \/ ServerPush("fg")
    \/ ServerChange

SpecScripts == InitScripts /\ [][NextScripts]_vars

\* ------------------------- ProtocolClient's table of sockets, step by step
\* _get_connection, _connect, connect, _close and close as any threads may
\* interleave them: a step is one block under self._socks_lock or one
\* statement that reads or writes what another thread can see.  A thread is
\* in the methods of its stack, innermost last; a frame is the method (f),
\* where it is in it (at), its key, its sock, the keys close() still has to
\* do, and what the method it called returned (got).
Frame(f, at, key) == [f |-> f, at |-> at, key |-> key, sock |-> 0, keys |-> <<>>, got |-> 0]

Pop(q) == SubSeq(q, 1, Len(q) - 1)
Replace(q, fr) == Pop(q) \o <<fr>>
At(q, at) == Replace(q, [q[Len(q)] EXCEPT !.at = at])
\* the innermost method returns v to its caller
Returned(q, v) ==
    IF Len(q) = 1 THEN <<>> ELSE Replace(Pop(q), [q[Len(q) - 1] EXCEPT !.got = v])
\* self._connect(timeout), whose first statement calls _get_connection
CallConnect(q, t) ==
    q \o <<Frame("_connect", "connect", t), Frame("_get_connection", "dead", t)>>

\* self._socks.get(key, None)
TrackedNever(tb, key) == 0
Tracked(tb, key) == tb[key]

\* list(self._socks.keys()), in the order the table happens to have
Keys(tb) ==
    LET S == {k \in Threads : tb[k] # 0}
    IN  {q \in [1..Cardinality(S) -> S] : \A i, j \in DOMAIN q : q[i] = q[j] => i = j}

\* what the rest of the model has, which these methods leave alone
ovars == <<term, sent, socks, localSock, buffer, notifications, wire, link, sub, jobState, serverVersion,
           serial, drops, now, tvars, res, hvars, id, stopEv, lock, timeoutCfg, keepalive,
           wake, top, called, wf, wu>>

InMethod(t, f) == stack[t] # <<>> /\ raised[t] = "-" /\ stack[t][Len(stack[t])].f = f

\* A thread calls one of the methods.
Methods == {<<"_get_connection", "dead">>, <<"connect", "check">>, <<"_close", "lock">>,
            <<"close", "dead">>}

WorkerCalls(t) ==
    /\ stack[t] = <<>>
    /\ ops < MaxOps
    /\ ops' = ops + 1
    /\ raised' = [raised EXCEPT ![t] = "-"]
    /\ \E m \in Methods : stack' = [stack EXCEPT ![t] = <<Frame(m[1], m[2], t)>>]
    /\ UNCHANGED <<dead, table, fds, tls, ovars>>

\* _get_connection(timeout)
StepGetConnection(t) ==
    /\ InMethod(t, "_get_connection")
    /\ LET q == stack[t]
           fr == q[Len(q)]
       IN  IF fr.at = "dead"
           THEN /\ stack' = [stack EXCEPT ![t] = IF dead THEN Returned(q, 0) ELSE At(q, "lock")]
                /\ UNCHANGED <<table, fds, tls, raised>>
           ELSE IF fr.at = "lock"
           THEN IF Tracked(table, t) = 0
                THEN /\ Len(fds) < MaxSocks
                     /\ fds' = Append(fds, [owner |-> t, state |-> "new"])
                     /\ table' = [table EXCEPT ![t] = Len(fds) + 1]
                     /\ stack' = [stack EXCEPT ![t] =
                                    Replace(q, [fr EXCEPT !.sock = Len(fds) + 1, !.at = "local"])]
                     /\ UNCHANGED <<tls, raised>>
                ELSE /\ stack' = [stack EXCEPT ![t] =
                                    Replace(q, [fr EXCEPT !.sock = table[t], !.at = "settimeout"])]
                     /\ UNCHANGED <<table, fds, tls, raised>>
           ELSE IF fr.at = "local"
           THEN /\ tls' = [tls EXCEPT ![t] = fr.sock]
                /\ stack' = [stack EXCEPT ![t] = CallConnect(At(q, "settimeout"), t)]
                /\ UNCHANGED <<table, fds, raised>>
           ELSE IF fr.at = "settimeout"
           THEN /\ IF fds[fr.sock].state = "closed"
                   THEN raised' = [raised EXCEPT ![t] = "OSError"] /\ stack' = stack
                   ELSE stack' = [stack EXCEPT ![t] = At(q, "ret")] /\ raised' = raised
                /\ UNCHANGED <<table, fds, tls>>
           ELSE /\ stack' = [stack EXCEPT ![t] = Returned(q, fr.sock)]
                /\ UNCHANGED <<table, fds, tls, raised>>
    /\ UNCHANGED <<dead, ops, ovars>>

\* _connect(timeout), from sock.connect on
StepConnectInner(t) ==
    /\ InMethod(t, "_connect")
    /\ LET q == stack[t]
           fr == q[Len(q)]
       IN  IF fr.at = "reraise"
           THEN raised' = [raised EXCEPT ![t] = "OSError"] /\ UNCHANGED <<stack, fds>>
           ELSE IF fr.got = 0
           THEN raised' = [raised EXCEPT ![t] = "AttributeError"] /\ UNCHANGED <<stack, fds>>
           ELSE \/ /\ fds[fr.got].state # "closed"
                   /\ fds' = [fds EXCEPT ![fr.got].state = "conn"]
                   /\ stack' = [stack EXCEPT ![t] = Pop(q)]
                   /\ raised' = raised
                \/ /\ stack' = [stack EXCEPT ![t] =
                                    At(q, "reraise") \o <<Frame("_close", "lock", t)>>]
                   /\ UNCHANGED <<fds, raised>>
    /\ UNCHANGED <<dead, table, tls, ops, ovars>>

\* del self._socks[key]
RemovedAll(tb, key) == [k \in Threads |-> 0]
Removed(tb, key) == [tb EXCEPT ![key] = 0]

\* _close(key)
StepCloseKey(t) ==
    /\ InMethod(t, "_close")
    /\ LET q == stack[t]
           fr == q[Len(q)]
       IN  IF fr.at = "lock"
           THEN IF table[fr.key] = 0
                THEN stack' = [stack EXCEPT ![t] = Pop(q)] /\ UNCHANGED <<table, tls, fds>>
                ELSE /\ table' = Removed(table, fr.key)
                     /\ tls' = IF fr.key = t THEN [tls EXCEPT ![t] = 0] ELSE tls
                     /\ stack' = [stack EXCEPT ![t] =
                                    Replace(q, [fr EXCEPT !.sock = table[fr.key], !.at = "close"])]
                     /\ fds' = fds
           ELSE /\ fds' = [fds EXCEPT ![fr.sock].state = "closed"]
                /\ stack' = [stack EXCEPT ![t] = Pop(q)]
                /\ UNCHANGED <<table, tls>>
    /\ UNCHANGED <<dead, raised, ops, ovars>>

\* connect(timeout)
StepConnect(t) ==
    /\ InMethod(t, "connect")
    /\ LET q == stack[t]
           fr == q[Len(q)]
       IN  IF fr.at = "check"
           THEN /\ IF tls[t] = Unset
                   THEN raised' = [raised EXCEPT ![t] = "AttributeError"] /\ stack' = stack
                   ELSE /\ raised' = raised
                        /\ stack' = [stack EXCEPT ![t] =
                                        IF tls[t] # 0
                                        THEN At(q, "undead") \o <<Frame("_close", "lock", t)>>
                                        ELSE At(q, "undead")]
                /\ dead' = dead
           ELSE IF fr.at = "undead"
           THEN /\ dead' = FALSE
                /\ stack' = [stack EXCEPT ![t] = CallConnect(At(q, "end"), t)]
                /\ raised' = raised
           ELSE /\ stack' = [stack EXCEPT ![t] = Pop(q)]
                /\ UNCHANGED <<dead, raised>>
    /\ UNCHANGED <<table, fds, tls, ops, ovars>>

\* close()
StepClose(t) ==
    /\ InMethod(t, "close")
    /\ LET q == stack[t]
           fr == q[Len(q)]
       IN  IF fr.at = "dead"
           THEN /\ dead' = TRUE
                /\ stack' = [stack EXCEPT ![t] = At(q, "keys")]
                /\ tls' = tls
           ELSE IF fr.at = "keys"
           THEN /\ \E keys \in Keys(table) :
                    stack' = [stack EXCEPT ![t] = Replace(q, [fr EXCEPT !.keys = keys, !.at = "loop"])]
                /\ UNCHANGED <<dead, tls>>
           ELSE IF fr.at = "loop"
           THEN /\ stack' = [stack EXCEPT ![t] =
                                IF fr.keys = <<>> THEN At(q, "local")
                                ELSE Replace(q, [fr EXCEPT !.keys = Tail(@)])
                                        \o <<Frame("_close", "lock", Head(fr.keys))>>]
                /\ UNCHANGED <<dead, tls>>
           ELSE /\ tls' = [k \in Threads |-> Unset]
                /\ stack' = [stack EXCEPT ![t] = Pop(q)]
                /\ dead' = dead
    /\ UNCHANGED <<table, fds, raised, ops, ovars>>

\* An exception on its way up: except (IOError, OSError) in _connect takes an
\* OSError of its try block to self._close() and raise; any other frame is
\* left.
Unwind(t) ==
    /\ stack[t] # <<>>
    /\ raised[t] # "-"
    /\ LET q == stack[t]
           fr == q[Len(q)]
       IN  IF fr.f = "_connect" /\ fr.at = "connect" /\ raised[t] = "OSError"
           THEN /\ raised' = [raised EXCEPT ![t] = "-"]
                /\ stack' = [stack EXCEPT ![t] =
                                At(q, "reraise") \o <<Frame("_close", "lock", t)>>]
           ELSE /\ stack' = [stack EXCEPT ![t] = Pop(q)]
                /\ raised' = raised
    /\ UNCHANGED <<dead, table, fds, tls, ops, ovars>>

\* A ProtocolClient just constructed, used by two threads.
InitTable ==
    /\ InitCommon
    /\ serverVersion = "1.0.0"
    /\ timeoutCfg = None
    /\ keepalive = None

NextTable ==
    \/ \E t \in Threads : WorkerCalls(t)
    \/ \E t \in Threads : StepGetConnection(t)
    \/ \E t \in Threads : StepConnectInner(t)
    \/ \E t \in Threads : StepCloseKey(t)
    \/ \E t \in Threads : StepConnect(t)
    \/ \E t \in Threads : StepClose(t)
    \/ \E t \in Threads : Unwind(t)

SpecTable == InitTable /\ [][NextTable]_vars

\* ------------------------------------------------------------------ claims
\* The first line with a "return" key among those a call received.
FirstReturn(lines) ==
    LET I == {i \in DOMAIN lines : lines[i].ret}
    IN  IF I = {} THEN 0 ELSE CHOOSE i \in I : \A j \in I : i <= j

CallReturned(t) == res[t].op = "call" /\ res[t].out.kind = "return"

\* C1: when call() returns normally, its result is the "return" value of the
\* first received line that has a "return" key; a notification is never the
\* result.
C1_CallReturnsFirstReturnValue ==
    \A t \in Threads :
        CallReturned(t) =>
            /\ FirstReturn(res[t].rx) # 0
            /\ res[t].out.obj = res[t].rx[FirstReturn(res[t].rx)]
            /\ res[t].out.obj.ret

\* C2: the notifications call() received are queued in arrival order and
\* wait_for_notification() hands them out oldest first, none lost, none twice,
\* and reads the socket only when the queue is empty.
C2_NotificationsFifo ==
    /\ delivered \o notifications = arrived
    /\ \A i, j \in DOMAIN arrived : i < j => arrived[i].n < arrived[j].n
    /\ \A t \in Threads : (st[t] = "recv" /\ cf[t].api = "wfn") => notifications = <<>>

\* Two notifications queued during one call() have been handed out by two
\* wait_for_notification() invocations.
C2_Witness ==
    /\ Len(delivered) = 2
    /\ res["fg"].op = "wfn"
    /\ res["fg"].out.obj = delivered[2]

\* C10: call() never returns normally without having received a line with a
\* "return" key: when the deadline passes first it raises.
C10_CallReturnsOnlyAfterAResponse ==
    \A t \in Threads :
        CallReturned(t) => \E i \in DOMAIN res[t].rx : res[t].rx[i].ret

Running(t) == st[t] # "-"
SentinelRunning == pc["bg"] \notin {"unstarted", "bg_exit", "bg_died"}
SentinelEnded == pc["bg"] \in {"bg_exit", "bg_died"}

\* C3: wait_for_state_change returns a state other than old_state that
\* get_state() has just reported, or old_state, and old_state only when there
\* is a deadline and it has passed.
C3_WaitForStateChangeResult ==
    wf.ret # "-" =>
        \/ wf.ret # wf.old /\ wf.ret = wf.seen
        \/ wf.ret = wf.old /\ wf.finish # None /\ now >= wf.finish[1]

\* wait_for_state_change(old, 2) called at time 0 on a created job has
\* returned old to its caller at the deadline.
C3_Witness ==
    /\ Ended("wait_for_state_change")
    /\ res["fg"].out.kind = "return"
    /\ res["fg"].out.obj.val = wf.old
    /\ wf.finish = Some(2)
    /\ id = "job"

\* C4: when wait_until_ready has observed the state destroyed or unknown it
\* ends by raising JobDestroyedError, with the server's reason for a
\* destroyed job (an exception of the query for the reason aside).
C4_DestroyedOrUnknownRaisesJobDestroyedError ==
    (Ended("wait_until_ready") /\ wu.cur \in {"destroyed", "unknown"}) =>
        /\ res["fg"].out.kind = "raise"
        /\ \/ res["fg"].out.exc \in Comm \cup {"TypeError", "AttributeError"}
           \/ /\ res["fg"].out.exc = "JobDestroyedError"
              /\ wu.cur = "destroyed" => res["fg"].out.obj.reason = "reason"

\* C5: destroy() on a created job returns normally.
C5_DestroyNeverRaises ==
    (Ended("destroy") /\ pc["bg"] # "unstarted") => res["fg"].out.kind = "return"

\* C6: the keepalive thread has ended only if the stop signal is set.
C6_SentinelEndsOnlyWhenStopped ==
    SentinelEnded => stopEv

\* C7: a thread is inside a send/receive sequence on the client only while it
\* holds the client lock or, in create() and destroy(), while the keepalive
\* thread is not running; the two threads are never inside one together.
C7_RpcsAreSerialised ==
    /\ \A t \in Threads :
            Running(t) =>
                IF pc[t] \in {"cr_version", "cr_create", "de_call"}
                THEN ~SentinelRunning
                ELSE lock = t
    /\ ~(Running("fg") /\ Running("bg"))

\* The caller is receiving inside get_state() with the lock while the
\* keepalive thread waits for the lock.
C7_Witness ==
    /\ pc["fg"] = "gs_call"
    /\ st["fg"] = "recv"
    /\ lock = "fg"
    /\ pc["bg"] = "bg_lock"

\* C8: while stop is not signalled, no step of the recovery after a failed
\* ping (the wait, the reconnect, the version query) ends the keepalive
\* thread, so that it can go on to ping again.
C8_RecoveryKeepsSentinelRunning ==
    [][(pc["bg"] \in {"bg_delay", "rc_connected", "rc_version"} /\ ~stopEv)
            => pc["bg"]' # "bg_died"]_vars

\* C9: once wait_for_state_change has caught a communication failure it
\* still ends by returning, never by raising.
C9_WaitForStateChangeHidesFailures ==
    (Ended("wait_for_state_change") /\ wf.caught) => res["fg"].out.kind = "return"

\* C11: wait_for_notification(timeout) with a non-empty queue takes and
\* returns the oldest entry without touching the socket, whatever the timeout;
\* with an empty queue and a negative timeout it returns None without touching
\* the socket; with an empty queue and a timeout of None or >= 0 it goes on to
\* receive, and a receive on a live connection that ends without a line ends
\* with ProtocolTimeoutError.
C11_WaitForNotificationContract ==
    [][\A t \in Threads :
        /\ (pc[t] = "idle" /\ pc'[t] = "c_wfn") =>
              IF notifications # <<>>
              THEN /\ st'[t] = "ret"
                   /\ out'[t] = Return(QueueFirst(notifications))
                   /\ notifications' = QueueRest(notifications)
                   /\ UNCHANGED <<socks, buffer, wire>>
              ELSE IF cf'[t].timeout # None /\ cf'[t].timeout[1] < 0
              THEN /\ st'[t] = "ret"
                   /\ out'[t] = Return(NoLine)
                   /\ UNCHANGED <<socks, buffer, wire>>
              ELSE st'[t] = "recv"
        /\ (pc[t] = "c_wfn" /\ st[t] = "recv" /\ st'[t] = "ret" /\ out'[t].kind = "raise"
                /\ ~dead /\ link[t] = "up") =>
              out'[t].exc = "ProtocolTimeoutError"]_vars

\* C12: what wait_for_notification() returns is never a line with a "return"
\* key.
C12_WaitForNotificationReturnsOnlyNotifications ==
    \A t \in Threads :
        (res[t].op = "wfn" /\ res[t].out.kind = "return") => ~res[t].out.obj.ret

\* C13: a wait_until_ready(timeout) that ends at or after its deadline, having
\* seen the job only queued or in power, ends by raising
\* StateChangeTimeoutError; it returns only when it has seen the job ready;
\* and the wait_for_state_change it calls gets the overall deadline as its own.
C13_DeadlineRaisesStateChangeTimeoutError ==
    /\ [](/\ (top = "wait_until_ready" /\ wf.caller = "wur") => wf.finish = wu.finish
          /\ (Ended("wait_until_ready") /\ res["fg"].out.kind = "return") => wu.cur = "ready")
    /\ [][(/\ top = "wait_until_ready"
           /\ pc["fg"] # "idle"
           /\ pc'["fg"] = "idle"
           /\ wu'.cur \in {"queued", "power"}
           /\ wu.finish # None
           /\ now >= wu.finish[1])
            => res'["fg"].out = Raise("StateChangeTimeoutError")]_vars

C15_DestroyWaitsForSentinel ==
    /\ []((pc["fg"] = "de_call" \/ (Ended("destroy") /\ pc["bg"] # "unstarted")) =>
            (SentinelEnded /\ ~Running("bg") /\ lock # "bg"))
    /\ [][SentinelEnded =>
            (pc'["bg"] = pc["bg"] /\ st'["bg"] = st["bg"] /\ lock' # "bg")]_vars

\* destroy() is sending destroy_job after the keepalive thread, which had a
\* connection of its own, has seen the stop signal and ended.
C15_Witness ==
    /\ pc["fg"] = "de_call"
    /\ pc["bg"] = "bg_exit"
    /\ socks["bg"] = "conn"

\* C16: on a Job with a finite timeout, no receive destroy() waits on is
\* without a deadline: neither the one of its destroy_job nor one of the
\* keepalive thread it is joining.
C16_DestroyWaitsAreBounded ==
    timeoutCfg # None =>
        /\ (pc["fg"] = "de_call" /\ st["fg"] = "recv") => cf["fg"].finish # None
        /\ (pc["fg"] = "de_join" /\ st["bg"] = "recv") => cf["bg"].finish # None

\* C17: the version gate lets create() go on to create_job exactly for the
\* server versions 0.0.2, 0.2.0, 1.0.0 and 1.9.9, those at or above (0, 0, 2)
\* and below (2, 0, 0) in their first three components; for 0.0.1, 2.0.0 and
\* 2.0.0.1 it closes the client and raises ValueError.
C17_VersionGate ==
    /\ []((pc["fg"] = "cr_create" \/ id # "None") =>
            serverVersion \in {"0.0.2", "0.2.0", "1.0.0", "1.9.9"})
    /\ []((Ended("create") /\ res["fg"].out = Raise("ValueError")) =>
            /\ serverVersion \in {"0.0.1", "2.0.0", "2.0.0.1"}
            /\ dead
            /\ \A t \in Threads : socks[t] = "absent")
    /\ [][(/\ pc["fg"] = "cr_version"
           /\ st["fg"] = "ret"
           /\ out["fg"].kind = "return"
           /\ out["fg"].obj.val = serverVersion
           /\ pc'["fg"] # "cr_version")
            => IF serverVersion \in {"0.0.2", "0.2.0", "1.0.0", "1.9.9"}
               THEN pc'["fg"] = "cr_create"
               ELSE res'["fg"].out = Raise("ValueError") /\ dead']_vars

\* create() has ended with ValueError against a server of version 2.0.0, and
\* the client is closed.
C17_Witness ==
    /\ Ended("create")
    /\ res["fg"].out = Raise("ValueError")
    /\ serverVersion = "2.0.0"
    /\ dead
    /\ socks["fg"] = "absent"

\* C18: a create() that has raised leaves id None and the keepalive thread
\* not started; the keepalive thread is started only with an id stored;
\* against a server of an incompatible version no create_job is sent.
C18_FailedCreateLeavesJobUncreated ==
    /\ (Ended("create") /\ res["fg"].out.kind = "raise") =>
            (id = "None" /\ pc["bg"] = "unstarted")
    /\ pc["bg"] # "unstarted" => id # "None"
    /\ serverVersion \in {"0.0.1", "2.0.0", "2.0.0.1"} =>
            (pc["fg"] # "cr_create" /\ jobState = "unknown")

\* The sockets a _close() has taken out of the table and is about to close.
BeingClosed ==
    UNION {{stack[t][i].sock : i \in {j \in DOMAIN stack[t] : /\ stack[t][j].f = "_close"
                                                             /\ stack[t][j].at = "close"}}
           : t \in Threads}

\* C19: for every thread the table of sockets maps its key to at most one
\* socket, made by it and not closed, and that is the only socket it has
\* made that is neither closed nor about to be closed by a _close().
C19_OneLiveConnectionPerWorker ==
    \A k \in Threads :
        /\ table[k] # 0 => (fds[table[k]].owner = k /\ fds[table[k]].state # "closed")
        /\ \A i, j \in DOMAIN fds :
                (/\ fds[i].owner = k /\ fds[i].state # "closed" /\ i \notin BeingClosed
                 /\ fds[j].owner = k /\ fds[j].state # "closed" /\ j \notin BeingClosed)
                    => (i = j /\ table[k] = i)

\* A thread has made its second socket while another thread's close() has
\* taken its first one out of the table and not yet closed it.
C19_Witness ==
    \E k \in Threads :
        /\ table[k] = 2
        /\ fds[1].owner = k
        /\ fds[1].state # "closed"
        /\ 1 \in BeingClosed

\* close() has set the dead flag and returned, and no connect() is under way.
Shut ==
    /\ dead
    /\ \A t \in Threads : \A i \in DOMAIN stack[t] : stack[t][i].f \notin {"close", "connect"}

\* C20: from the return of close() until connect() is called the table of
\* sockets is empty and no _get_connection is returning a socket.
C20_CloseLeavesNoConnection ==
    Shut =>
        /\ \A k \in Threads : table[k] = 0
        /\ \A t \in Threads :
                ~(/\ stack[t] # <<>>
                  /\ stack[t][Len(stack[t])].f = "_get_connection"
                  /\ stack[t][Len(stack[t])].at = "ret")

\* C21: connect() ends by returning, with the dead flag cleared and the
\* caller's key mapped to one connected socket, or by raising the failure of
\* the connection (an OSError), whether the caller had a socket before or not
\* and whether close() was called before or not; it ends no other way.
C21_ConnectLeavesOneConnection ==
    [][\A t \in Threads :
        (stack[t] # <<>> /\ stack[t][1].f = "connect" /\ stack'[t] = <<>>) =>
            /\ raised'[t] \in {"-", "OSError"}
            /\ raised'[t] = "-" =>
                    /\ \A u \in Threads \ {t} : stack[u] = <<>>
                            => (~dead' /\ table'[t] # 0 /\ fds'[table'[t]].state = "conn")]_vars

\* C22: a call() that ends by raising raises a communication error (OSError
\* or ProtocolTimeoutError), and OSError when the client is dead.
C22_CallFailsWithConnectionError ==
    \A t \in Threads :
        (cf[t].api = "call" /\ st[t] = "ret" /\ out[t].kind = "raise") =>
            /\ out[t].exc \in Comm
            /\ dead => out[t].exc = "OSError"

\* C23: Job.id is None until create() has been called; it changes only at the
\* end of a create() that returns, to the value of the response to
\* create_job; once it is not None no step changes it.
C23_IdIsSetOnceByCreate ==
    /\ [](id # "None" => "create" \in called)
    /\ [][id # "None" => id' = id]_vars
    /\ [][id' # id =>
            /\ pc["fg"] = "cr_create"
            /\ out["fg"].kind = "return"
            /\ out["fg"].obj.cmd = "create_job"
            /\ id' = out["fg"].obj.val
            /\ pc'["fg"] = "idle"
            /\ res'["fg"] = [op |-> "create", out |-> Return(NoLine), rx |-> <<>>]]_vars

\* A job was created with the id the server gave, has changed state on the
\* server and has been destroyed, and the id is still that id.
C23_Witness ==
    /\ id = "job"
    /\ Ended("destroy")
    /\ res["fg"].out.kind = "return"
    /\ jobState = "destroyed"
    /\ serial > 0

\* C24: __enter__ calls wait_until_ready() only after create() has returned;
\* the body of the with statement is entered only when wait_until_ready() has
\* returned, having seen the state ready; when wait_until_ready() raises,
\* destroy() is called before the exception leaves __enter__; leaving the
\* body calls destroy(); once destroy() has been called and is over the
\* context manager calls nothing more, so that a job whose create() returned
\* has destroy() called on it once when the with statement is over.
C24_ContextManagerDestroysOnce ==
    /\ [](("__exit__" \in called \/ ("raised" \in called /\ "wait_until_ready" \in called))
            => "destroy" \in called)
    /\ []("__exit__" \in called => ("body" \in called /\ "raised" \notin called))
    /\ [][("wait_until_ready" \in called' /\ "wait_until_ready" \notin called)
            => (Ended("create") /\ res["fg"].out.kind = "return")]_vars
    /\ [][("body" \in called' /\ "body" \notin called)
            => (Ended("wait_until_ready") /\ res["fg"].out.kind = "return" /\ wu.cur = "ready")]_vars
    /\ [][("wait_until_ready" \in called /\ Ended("wait_until_ready")
           /\ res["fg"].out.kind = "raise" /\ called' # called)
            => ("destroy" \in called' /\ stopEv' /\ top' = "destroy")]_vars
    /\ [][("__enter__" \in called /\ "destroy" \in called)
            => (top' = "destroy" /\ (pc["fg"] = "idle" => pc'["fg"] = "idle"))]_vars

\* The with statement is over: the job became ready, the body ran
\* get_machine_info(), and __exit__ has destroyed the job.
C24_Witness ==
    /\ "__exit__" \in called
    /\ Ended("destroy")
    /\ res["fg"].out.kind = "return"
    /\ jobState = "destroyed"
    /\ ops = 2

\* C25, in the form a finite run refutes: a wait_for_state_change without
\* deadline on a created job with a keepalive interval, which has subscribed
\* and met no communication failure itself, ends only by returning a state
\* other than old_state, also when the keepalive thread's recovery has closed
\* the client under it and the job's state on the server is no longer
\* old_state.
C25_WaitSurvivesSentinelRecovery ==
    [][(/\ top = "wait_for_state_change"
        /\ pc["fg"] \in {"wf_state", "wf_keep", "wf_wait"}
        /\ pc'["fg"] = "idle"
        /\ wf.finish = None
        /\ keepalive # None
        /\ ~wf.caught
        /\ dead
        /\ id = "job"
        /\ jobState # wf.old)
            => (res'["fg"].out.kind = "return" /\ res'["fg"].out.obj.val # wf.old)]_vars

\* C26: each call of update() emits a control code followed by str(string):
\* when the Terminal is enabled, the save-cursor code at the first call after
\* construction and at every call with start_again=True, the restore-cursor
\* and clear-line codes at every other call; when it is disabled, no code.
C26_UpdateIsTwoPhase ==
    \A i \in DOMAIN term.log :
        LET c == term.log[i]
        IN  /\ c.out[2] = (IF c.string.isInt THEN "123" ELSE c.string.s)
            /\ c.out[1] = IF ~c.enabled THEN ""
                          ELSE IF i = 1 \/ c.start_again THEN SaveCursor
                          ELSE RestoreAndClear

\* update("foo", start_again=True), update("bar") and update(123) on an
\* enabled Terminal have emitted save + "foo", restore/clear + "bar" and
\* restore/clear + "123".
C26_Witness ==
    /\ Len(term.log) = 3
    /\ term.log[1].enabled /\ term.log[2].enabled /\ term.log[3].enabled
    /\ term.log[1].out = <<SaveCursor, "foo">>
    /\ term.log[2].out = <<RestoreAndClear, "bar">>
    /\ term.log[3].out = <<RestoreAndClear, "123">>

\* C27: wait_for_state_change enters its notification wait only from a
\* job_keepalive of its own that has returned, holding the client lock from
\* before that ping until the wait is over; when the wait times out it goes
\* back, still holding the lock, to the ping (or, at the deadline, returns);
\* while the waiter holds the lock the keepalive thread is in no call and
\* begins none.
C27_WaiterPingsBeforeEachWait ==
    /\ [](pc["fg"] \in {"wf_in", "wf_keep", "wf_wait"} => lock = "fg")
    /\ [](lock = "fg" => (pc["bg"] # "bg_keep" /\ ~Running("bg")))
    /\ [][(pc'["fg"] = "wf_wait" /\ pc["fg"] # "wf_wait") =>
            /\ pc["fg"] = "wf_keep"
            /\ cf["fg"].name = "job_keepalive"
            /\ st["fg"] = "ret"
            /\ out["fg"].kind = "return"]_vars
    /\ [][(pc["fg"] = "wf_wait" /\ pc'["fg"] # "wf_wait"
           /\ out["fg"] = Raise("ProtocolTimeoutError")) => pc'["fg"] = "wf_in"]_vars
    /\ [][(pc["fg"] = "wf_in" /\ pc'["fg"] # "wf_in") =>
            IF Open(wf.finish) THEN pc'["fg"] = "wf_keep" /\ cf'["fg"].name = "job_keepalive"
            ELSE lock' = "free"]_vars
    /\ [][lock = "fg" => (Running("bg")' = Running("bg"))]_vars

\* The waiter is blocked in its notification wait, holding the lock, while
\* the keepalive thread is due to ping and waits for the lock.
C27_Witness ==
    /\ pc["fg"] = "wf_wait"
    /\ st["fg"] = "recv"
    /\ lock = "fg"
    /\ pc["bg"] = "bg_lock"
    /\ id = "job"

\* C28: the notification wait of wait_for_state_change is given the timeout
\* min(keepalive / 2, time left) when there are both a keepalive interval and
\* a deadline, keepalive / 2 with the keepalive alone, the time left with the
\* deadline alone; computing it ends the operation with no error, whichever
\* of the two are set; and the deadline stays what it was at the call.
C28_WaitTimeoutIsTheSmallerBound ==
    /\ [][(pc["fg"] = "wf_keep" /\ pc'["fg"] = "wf_wait") =>
            cf'["fg"].timeout =
                IF keepalive # None /\ wf.finish # None
                THEN Some(IF Half(keepalive[1]) < wf.finish[1] - now THEN Half(keepalive[1])
                          ELSE wf.finish[1] - now)
                ELSE IF keepalive # None THEN Some(Half(keepalive[1]))
                ELSE Some(wf.finish[1] - now)]_vars
    /\ [][(pc["fg"] = "wf_keep" /\ st["fg"] = "ret" /\ out["fg"].kind = "return"
           /\ pc'["fg"] # "wf_keep") => pc'["fg"] \in {"wf_wait", "wf_in"}]_vars
    /\ [][(wf.old # "-" /\ wf'.old # "-" /\ top' = top /\ ops' = ops /\ wf.caller = wf'.caller)
            => wf'.finish = wf.finish]_vars

C30_CallReturnsItsOwnResponse ==
    \A t \in Threads :
        (pc[t] = "c_call" /\ st[t] = "ret" /\ out[t].kind = "return" /\ out[t].obj.ret
            /\ link[t] = "up")
            => /\ out[t].obj.cmd = cf[t].name
               /\ out[t].obj.cur

\* C31: the recovery from a failed ping in the keepalive thread, and the
\* except clause of wait_for_state_change, close only the connection of the
\* thread that recovers: the dead flag and the other thread's socket, link
\* and subscription are left as they were.
C31_RecoveryClosesOwnConnectionOnly ==
    /\ [][(pc["bg"] = "bg_keep" /\ pc'["bg"] = "bg_delay")
            => /\ dead' = dead
               /\ socks'["fg"] = socks["fg"]
               /\ link'["fg"] = link["fg"]
               /\ sub'["fg"] = sub["fg"]]_vars
    /\ [][(pc["fg"] = "wf_except" /\ pc'["fg"] = "wf_sleep")
            => /\ dead' = dead
               /\ socks'["bg"] = socks["bg"]
               /\ link'["bg"] = link["bg"]
               /\ sub'["bg"] = sub["bg"]]_vars

\* C32: when the stop event is set while the keepalive thread waits out the
\* reconnect delay after a failed ping, the wait can end at once, whatever is
\* left of the delay; the thread then leaves the wait without reconnecting
\* (the client is left as it was), sends no further ping and goes to its
\* exit, each of its steps on the way being possible at once.
SentinelStopping == {"bg_delay", "bg_try", "bg_wait", "bg_exit"}
C32_StopAbortsReconnectDelay ==
    /\ []((pc["bg"] = "bg_delay" /\ stopEv) => ENABLED BgDelay)
    /\ []((pc["bg"] = "bg_try" /\ stopEv) => ENABLED BgTry)
    /\ []((pc["bg"] = "bg_wait" /\ stopEv) => ENABLED BgWait)
    /\ [][(pc["bg"] = "bg_delay" /\ stopEv /\ pc'["bg"] # "bg_delay")
            => /\ pc'["bg"] = "bg_try"
               /\ dead' = dead /\ socks' = socks /\ localSock' = localSock
               /\ link' = link /\ wire' = wire]_vars
    /\ [][(stopEv /\ pc["bg"] \in SentinelStopping)
            => /\ pc'["bg"] \in SentinelStopping
               /\ cf'["bg"] = NoFrame]_vars
    /\ [][(stopEv /\ pc["bg"] = "bg_try" /\ pc'["bg"] # "bg_try")
            => (pc'["bg"] = "bg_wait" /\ lock' = "free")]_vars
    /\ [][(stopEv /\ pc["bg"] = "bg_wait" /\ pc'["bg"] # "bg_wait")
            => pc'["bg"] = "bg_exit"]_vars

\* The keepalive thread has left the reconnect delay before its end because
\* the stop event was set, and has not reconnected: the client is still dead.
C32_Witness ==
    /\ pc["bg"] = "bg_try"
    /\ stopEv
    /\ dead
    /\ lock = "bg"
    /\ wake["bg"] # None
    /\ now < wake["bg"][1]

\* C33: every wait of the keepalive thread's outer loop lasts half the
\* keepalive interval from the moment it begins and can end at once when the
\* stop event is set; a wait that ends with the event set leads to the exit
\* and to no ping; a ping is started only by the inner loop with the event
\* unset and the lock held, and a ping that returned leads back to the wait;
\* with no keepalive interval the thread stays in its wait, whose only end is
\* the exit on the stop event, and never starts a call.
C33_OnePingPerHalfInterval ==
    /\ []((pc["bg"] = "bg_wait" /\ stopEv) => ENABLED BgWait)
    /\ []((pc["bg"] = "bg_wait" /\ ~stopEv /\ keepalive = None) => ~ENABLED BgWait)
    /\ [](keepalive = None => (pc["bg"] \in {"unstarted", "bg_wait", "bg_exit"}
                               /\ cf["bg"] = NoFrame))
    /\ [][(pc'["bg"] = "bg_wait" /\ pc["bg"] \in {"unstarted", "bg_keep"})
            => wake'["bg"] = IF keepalive = None THEN None
                             ELSE Some(now + (keepalive[1] \div 2))]_vars
    /\ [][(pc["bg"] = "bg_wait" /\ pc'["bg"] # "bg_wait")
            => IF stopEv THEN pc'["bg"] = "bg_exit"
               ELSE /\ pc'["bg"] = "bg_lock"
                    /\ keepalive # None
                    /\ now >= wake["bg"][1]]_vars
    /\ [][(pc'["bg"] = "bg_keep" /\ pc["bg"] # "bg_keep")
            => (pc["bg"] = "bg_try" /\ ~stopEv /\ lock = "bg"
                /\ cf'["bg"].name = "job_keepalive")]_vars
    /\ [][(pc["bg"] = "bg_keep" /\ pc'["bg"] # "bg_keep" /\ out["bg"].kind = "return")
            => (pc'["bg"] = "bg_wait" /\ lock' = "free")]_vars

\* A ping of the keepalive thread has returned the server's response, after
\* the first wait of half the interval.
C33_Witness ==
    /\ pc["bg"] = "bg_keep"
    /\ st["bg"] = "ret"
    /\ out["bg"].kind = "return"
    /\ out["bg"].obj.cmd = "job_keepalive"
    /\ keepalive = Some(2)
    /\ ~stopEv
    /\ now = 1

\* C34: _reconnect() returns normally whatever happens to its connect and
\* version query: in the keepalive thread it never ends the thread, and in
\* wait_for_state_change it never ends the method; when the reconnection
\* failed the client is left closed.
C34_ReconnectNeverRaises ==
    /\ [][pc["bg"] \in {"bg_delay", "rc_connected", "rc_version"} => pc'["bg"] # "bg_died"]_vars
    /\ [][pc["fg"] \in {"wf_sleep", "rc_connected", "rc_version"} => pc'["fg"] # "idle"]_vars
    /\ [][(pc["fg"] \in {"wf_sleep", "rc_connected", "rc_version"} /\ pc'["fg"] = "wf_outer"
           /\ socks'["fg"] # "conn")
            => (dead' /\ socks'["fg"] = "absent")]_vars

\* C35: wait_until_ready does not end with StateChangeTimeoutError when the
\* last state it observed, from get_state() or from wait_for_state_change,
\* is ready.
C35_NoTimeoutOnceReady ==
    (Ended("wait_until_ready") /\ res["fg"].out.kind = "raise"
        /\ res["fg"].out.exc = "StateChangeTimeoutError")
        => wu.cur # "ready"

PowerCommands == {"power_on_job_boards", "power_off_job_boards"}
PjObserved == out["fg"].obj.val
C37_PowerJobDecidesOnObservedState ==
    /\ [](top = "power_job" =>
            \A i \in DOMAIN sent : (sent[i] \in PowerCommands) <=> (i = 1))
    /\ [](top = "power_job" =>
            \A i \in DOMAIN sent :
                i > 1 => sent[i] = (IF i % 2 = 0 THEN "notify_job" ELSE "get_job_state"))
    /\ [][(top = "power_job" /\ pc'["fg"] = "idle" /\ pc["fg"] # "idle"
           /\ res'["fg"].out = ExitCode("0"))
            => (pc["fg"] = "pj_state" /\ out["fg"].kind = "return"
                /\ out["fg"].obj.cmd = "get_job_state" /\ PjObserved = "ready")]_vars
    /\ [][(pc["fg"] = "pj_state" /\ st["fg"] = "ret" /\ out["fg"].kind = "return"
           /\ PjObserved \in JobStates \ {"ready", "power"} /\ pc'["fg"] # "pj_state")
            => (pc'["fg"] = "idle" /\ res'["fg"].out = ExitCode("8") /\ sent' = sent)]_vars
    /\ [][(top = "power_job" /\ pc'["fg"] = "idle" /\ pc["fg"] # "idle"
           /\ res'["fg"].out = ExitCode("8"))
            => (pc["fg"] = "pj_state" /\ out["fg"].kind = "return"
                /\ PjObserved \in JobStates \ {"ready", "power"})]_vars
    /\ [][(pc["fg"] = "pj_state" /\ st["fg"] = "ret" /\ out["fg"].kind = "return"
           /\ PjObserved = "power" /\ pc'["fg"] # "pj_state")
            => (pc'["fg"] = "pj_wait" /\ cf'["fg"].api = "wfn" /\ sent' = sent)]_vars
    /\ [][(pc["fg"] = "pj_wait" /\ pc'["fg"] \notin {"pj_wait", "idle"})
            => (pc'["fg"] = "pj_notify" /\ cf'["fg"].name = "notify_job")]_vars
    /\ [][(pc["fg"] = "pj_notify" /\ pc'["fg"] \notin {"pj_notify", "idle"})
            => (pc'["fg"] = "pj_state" /\ cf'["fg"].name = "get_job_state")]_vars

\* power_job has returned 0 after a first reading of the state that said
\* power, a notification, and a second reading that said ready.
C37_Witness ==
    /\ Ended("power_job")
    /\ res["fg"].out = ExitCode("0")
    /\ sent = <<"power_on_job_boards", "notify_job", "get_job_state", "notify_job",
                "get_job_state">>
    /\ jobState = "ready"
    /\ delivered = <<>>
    /\ serial > 0

\* C38: when main() of spalloc-job is over its client is closed (dead, no
\* socket left); and when the server's version is outside the accepted range
\* main() has returned 2 after the version query and no other command, or 1
\* because the connection or the version query failed in communication.
C38_MainClosesAndReturnsCode ==
    Ended("main") =>
        /\ dead
        /\ \A t \in Threads : socks[t] = "absent"
        /\ serverVersion = "2.0.0" =>
                \/ res["fg"].out = ExitCode("2") /\ sent = <<"version">>
                \/ res["fg"].out = ExitCode("1") /\ Len(sent) <= 1

\* C39: a step of _close(key) leaves the dead flag, the table entries of
\* the other keys and every socket but the one of its key as they were: under
\* the lock it removes the entry of its key, and nothing when there is none;
\* then it closes the socket it removed, which its key's thread had made.
C39_CloseKeyTouchesOneConnection ==
    [][\A t \in Threads :
        (InMethod(t, "_close") /\ stack'[t] # stack[t]) =>
            LET fr == stack[t][Len(stack[t])]
            IN  /\ dead' = dead
                /\ \A k \in Threads \ {fr.key} : table'[k] = table[k]
                /\ \A k \in Threads \ {t} : tls'[k] = tls[k]
                /\ IF fr.at = "lock"
                   THEN /\ fds' = fds
                        /\ table'[fr.key] = 0
                        /\ table[fr.key] = 0 => (table' = table /\ tls' = tls)
                   ELSE /\ table' = table
                        /\ tls' = tls
                        /\ fds[fr.sock].owner = fr.key
                        /\ fds'[fr.sock].state = "closed"
                        /\ \A i \in DOMAIN fds : i # fr.sock => fds'[i] = fds[i]]_vars

\* A thread has removed the entry of its key and is about to close the
\* socket, while the other thread's connection is in the table, connected.
C39_Witness ==
    \E t \in Threads :
        /\ InMethod(t, "_close")
        /\ LET fr == stack[t][Len(stack[t])]
           IN  /\ fr.at = "close"
               /\ table[fr.key] = 0
               /\ \E k \in Threads \ {fr.key} :
                    table[k] # 0 /\ fds[table[k]].state = "conn"

\* C40: when establishing a connection fails, inside the lazy
\* _get_connection of a call or through the connect() of create(), the
\* socket just made is taken out of the connection table and closed and the
\* OSError reaches the caller: the worker's entry is absent, its local socket
\* is None and its read buffer is empty.  No socket that failed to connect is
\* ever left in the table, an absent entry never goes with buffered or
\* undelivered bytes, and the connection that replaces it starts with an
\* empty read buffer.
C40_FailedConnectLeavesNoSocket ==
    /\ [](socks["fg"] # "new")
    /\ [](socks["fg"] = "absent" =>
            /\ buffer["fg"] = <<>>
            /\ wire["fg"] = <<>>
            /\ link["fg"] = "none"
            /\ localSock["fg"] # "sock")
    /\ [][/\ pc["fg"] = "idle"
          /\ pc'["fg"] = "gs_call"
          /\ ~dead
          /\ socks["fg"] = "absent"
          /\ st'["fg"] = "ret"
          => /\ out'["fg"] = Raise("OSError")
             /\ socks'["fg"] = "absent"
             /\ localSock'["fg"] = "none"
             /\ buffer'["fg"] = <<>>]_vars
    /\ [][/\ pc["fg"] = "idle"
          /\ ops' = ops + 1
          /\ top' = "create"
          /\ pc'["fg"] = "idle"
          => /\ res'["fg"].out.kind = "raise"
             /\ socks'["fg"] = "absent"
             /\ localSock'["fg"] # "sock"
             /\ buffer'["fg"] = <<>>
             /\ res'["fg"].out = Raise("OSError") => localSock'["fg"] = "none"]_vars
    /\ [][/\ pc["fg"] = "idle"
          /\ ops' = ops + 1
          /\ pc'["fg"] \in {"gs_call", "cr_connected"}
          /\ socks'["fg"] = "conn"
          /\ socks["fg"] = "absent" \/ top' = "create"
          => /\ buffer'["fg"] = <<>>
             /\ localSock'["fg"] = "sock"
             /\ link'["fg"] = "up"
             /\ pc'["fg"] = "cr_connected" => wire'["fg"] = <<>>]_vars

\* create() failed to connect after a get_state() that had connected lazily
\* and been answered: the connection table is empty again.
C40_Witness ==
    /\ Ended("create")
    /\ res["fg"].out = Raise("OSError")
    /\ ops = 2
    /\ socks["fg"] = "absent"
    /\ localSock["fg"] = "none"
    /\ buffer["fg"] = <<>>

====
